---- MODULE Spec2Model ----
(***************************************************************************)
(* A model of precisionlife_fastjsonschema/ref_resolver.py: URI joining    *)
(* and normalisation, JSON-pointer fragment resolution, remote fetching,   *)
(* and the RefResolver (scopes, store, resolving contexts, scope names,    *)
(* walk).                                                                  *)
(*                                                                         *)
(* Strings that the code inspects character by character (fragments,      *)
(* scope names) are sequences of one-character strings.  A URI is the      *)
(* record urlsplit() makes of it:                                          *)
(*   scheme, auth (netloc), path (the list path.split('/'), <<>> for the   *)
(*   empty path), q (a bare '?' with an empty query is written), hash (a   *)
(*   '#' is written), frag (the characters after the '#').                 *)
(***************************************************************************)
EXTENDS Integers, Sequences, FiniteSets, TLC

(***************************************************************************)
(* Generic helpers                                                         *)
(***************************************************************************)
Last(s) == s[Len(s)]

Front(s) == SubSeq(s, 1, Len(s) - 1)

RECURSIVE FilterEmpty(_)
FilterEmpty(s) ==
    IF s = <<>> THEN <<>>
    ELSE IF Head(s) = "" THEN FilterEmpty(Tail(s))
         ELSE <<Head(s)>> \o FilterEmpty(Tail(s))

(***************************************************************************)
(* URIs                                                                    *)
(***************************************************************************)
Uri(scheme, auth, path, q, hash, frag) ==
    [scheme |-> scheme, auth |-> auth, path |-> path,
     q |-> q, hash |-> hash, frag |-> frag]

EmptyUri == Uri("", "", <<>>, FALSE, FALSE, <<>>)

\* urllib.parse.uses_relative / uses_netloc, restricted to the schemes used.
UsesRelative == {"", "http", "https"}

UsesNetloc == {"", "http", "https"}

\* urlunsplit(): an empty query and an empty fragment are not written, and a
\* relative path that follows a netloc position gets a leading '/'.
UrlUnsplit(scheme, auth, path, frag) ==
    LET slash == (auth # "" \/ (scheme # "" /\ scheme \in UsesNetloc))
                 /\ path # <<>> /\ Head(path) # ""
    IN Uri(scheme, auth, IF slash THEN <<"">> \o path ELSE path,
           FALSE, frag # <<>>, frag)

\* The dot-segment loop of urljoin().
RECURSIVE ResolveDots(_, _)
ResolveDots(segs, acc) ==
    IF segs = <<>> THEN acc
    ELSE IF Head(segs) = ".."
         THEN ResolveDots(Tail(segs), IF acc = <<>> THEN acc ELSE Front(acc))
         ELSE IF Head(segs) = "."
              THEN ResolveDots(Tail(segs), acc)
              ELSE ResolveDots(Tail(segs), Append(acc, Head(segs)))

\* urllib.parse.urljoin(base, url).
UrlJoin(base, url) ==
    IF base = EmptyUri THEN url
    ELSE IF url = EmptyUri THEN base
    ELSE
    LET scheme == IF url.scheme = "" THEN base.scheme ELSE url.scheme IN
    IF scheme # base.scheme \/ scheme \notin UsesRelative THEN url
    ELSE IF scheme \in UsesNetloc /\ url.auth # ""
         THEN UrlUnsplit(scheme, url.auth, url.path, url.frag)
    ELSE IF url.path = <<>>
         THEN UrlUnsplit(scheme, base.auth, base.path, url.frag)
    ELSE
    LET bp == IF base.path = <<>> THEN <<"">> ELSE base.path
        base_parts == IF Last(bp) # "" THEN Front(bp) ELSE bp
        segments ==
            IF Head(url.path) = "" THEN url.path
            ELSE LET all == base_parts \o url.path IN
                 IF Len(all) <= 2 THEN all
                 ELSE <<Head(all)>>
                      \o FilterEmpty(SubSeq(all, 2, Len(all) - 1))
                      \o <<Last(all)>>
        resolved == ResolveDots(segments, <<>>)
        resolved_path == IF Last(segments) \in {".", ".."}
                         THEN Append(resolved, "") ELSE resolved
        \* '/'.join(resolved_path) or '/'
        path == IF resolved_path \in {<<>>, <<"">>} THEN <<"", "">>
                ELSE resolved_path
    IN UrlUnsplit(scheme, base.auth, path, url.frag)

\* fixed_urljoin(url0, url1): urljoin that treats all schemes as hierarchical.
fixed_urljoin(url0, url1) ==
    IF url0.scheme \in {"http", "https"} THEN UrlJoin(url0, url1)
    ELSE IF url1.scheme # "" THEN url1
    ELSE LET url0_http == UrlUnsplit("http", url0.auth, url0.path, url0.frag)
             joined == UrlJoin(url0_http, url1)
         IN UrlUnsplit(url0.scheme, joined.auth, joined.path, joined.frag)

\* normalize(uri): urlsplit(uri).geturl().
normalize(uri) == UrlUnsplit(uri.scheme, uri.auth, uri.path, uri.frag)

\* urllib.parse.urldefrag(url): the URL without its fragment; a URL that
\* holds no '#' is returned as it was written.
UrlDefrag(url) ==
    IF url.hash THEN UrlUnsplit(url.scheme, url.auth, url.path, <<>>)
    ELSE url

(***************************************************************************)
(* Character strings                                                       *)
(***************************************************************************)
RECURSIVE LStrip(_, _)
\* s.lstrip(c)
LStrip(s, c) ==
    IF s # <<>> /\ Head(s) = c THEN LStrip(Tail(s), c) ELSE s

RECURSIVE RStrip(_, _)
\* s.rstrip(c)
RStrip(s, c) ==
    IF s # <<>> /\ Last(s) = c THEN RStrip(Front(s), c) ELSE s

RECURSIVE Replace2(_, _, _, _)
\* s.replace(a + b, r): left to right, without rescanning what was written.
Replace2(s, a, b, r) ==
    IF Len(s) < 2 THEN s
    ELSE IF s[1] = a /\ s[2] = b
         THEN r \o Replace2(SubSeq(s, 3, Len(s)), a, b, r)
         ELSE <<s[1]>> \o Replace2(Tail(s), a, b, r)

\* The character a %XY escape encodes, for the hex digits of the alphabet:
\* a printable ASCII character, a control character (named by its code), or
\* U+FFFD for a byte that is not UTF-8.
HexChar(a, b) ==
    CASE a = "2" /\ b = "F" -> "/"
      [] a = "2" /\ b = "0" -> " "
      [] a = "2" /\ b = "1" -> "!"
      [] a = "2" /\ b = "2" -> "\""
      [] a = "0" /\ b = "0" -> "x00"
      [] a = "0" /\ b = "1" -> "x01"
      [] a = "0" /\ b = "2" -> "x02"
      [] a = "0" /\ b = "F" -> "x0F"
      [] a = "1" /\ b = "0" -> "x10"
      [] a = "1" /\ b = "1" -> "x11"
      [] a = "1" /\ b = "2" -> "x12"
      [] a = "1" /\ b = "F" -> "x1F"
      [] OTHER -> "uFFFD"

HexDigits == {"0", "1", "2", "F"}

RECURSIVE Unquote(_)
\* urllib.parse.unquote(s): a '%' followed by two hex digits is the character
\* they encode.
Unquote(s) ==
    IF s = <<>> THEN <<>>
    ELSE IF Len(s) >= 3 /\ s[1] = "%" /\ s[2] \in HexDigits /\ s[3] \in HexDigits
         THEN <<HexChar(s[2], s[3])>> \o Unquote(SubSeq(s, 4, Len(s)))
         ELSE <<s[1]>> \o Unquote(Tail(s))

RECURSIVE SplitAcc(_, _, _)
SplitAcc(s, c, cur) ==
    IF s = <<>> THEN <<cur>>
    ELSE IF Head(s) = c THEN <<cur>> \o SplitAcc(Tail(s), c, <<>>)
         ELSE SplitAcc(Tail(s), c, Append(cur, Head(s)))

\* s.split(c)
Split(s, c) == SplitAcc(s, c, <<>>)

\* part in text, for two strings: a substring test.
IsSubstring(part, text) ==
    \E i \in 1..(Len(text) - Len(part) + 1) :
        SubSeq(text, i, i + Len(part) - 1) = part

Digits == {"0", "1", "2", "3", "4", "5", "6", "7", "8", "9"}

DigitVal(c) ==
    CASE c = "0" -> 0 [] c = "1" -> 1 [] c = "2" -> 2 [] c = "3" -> 3
      [] c = "4" -> 4 [] c = "5" -> 5 [] c = "6" -> 6 [] c = "7" -> 7
      [] c = "8" -> 8 [] c = "9" -> 9

RECURSIVE DecVal(_, _)
DecVal(s, acc) ==
    IF s = <<>> THEN acc ELSE DecVal(Tail(s), 10 * acc + DigitVal(Head(s)))

AllDigits(s) == s # <<>> /\ \A i \in 1..Len(s) : s[i] \in Digits

\* int(part) over the alphabet: surrounding blanks are dropped, then an
\* optional sign and at least one digit; anything else raises ValueError.
IntText(part) == RStrip(LStrip(part, " "), " ")

IntOk(part) ==
    LET t == IntText(part) IN
    \/ AllDigits(t)
    \/ t # <<>> /\ Head(t) \in {"-", "+"} /\ AllDigits(Tail(t))

IntVal(part) ==
    LET t == IntText(part) IN
    IF Head(t) = "-" THEN 0 - DecVal(Tail(t), 0)
    ELSE IF Head(t) = "+" THEN DecVal(Tail(t), 0)
    ELSE DecVal(t, 0)

(***************************************************************************)
(* JSON values live in a heap: node id -> node.  A node names its parent   *)
(* (0: a document root) and the key (a dict member) or index (a list       *)
(* element, from 0) it hangs under.  A str node holds its characters       *)
(* (text) and, when the string is a URI, the URI (uri).                    *)
(***************************************************************************)
Node(kind, parent, key, idx, uri, text) ==
    [kind |-> kind, parent |-> parent, key |-> key, idx |-> idx,
     uri |-> uri, text |-> text]

DictNode(parent, key) == Node("dict", parent, key, 0, EmptyUri, <<>>)

ListNode(parent, key) == Node("list", parent, key, 0, EmptyUri, <<>>)

DictElem(parent, idx) == Node("dict", parent, <<>>, idx, EmptyUri, <<>>)

StrElem(parent, idx, text) == Node("str", parent, <<>>, idx, EmptyUri, text)

NumNode(parent, key) == Node("num", parent, key, 0, EmptyUri, <<>>)

UriNode(parent, key, uri) == Node("str", parent, key, 0, uri, <<>>)

\* The members of dict n, in insertion order (the order of their ids).
Members(h, n) == {m \in DOMAIN h : h[m].parent = n}

HasKey(h, n, key) == \E m \in Members(h, n) : h[m].key = key

Member(h, n, key) == CHOOSE m \in Members(h, n) : h[m].key = key

ListLen(h, n) == Cardinality(Members(h, n))

Elem(h, n, i) == CHOOSE m \in Members(h, n) : h[m].idx = i

\* {"F": ["F0", {"0": 5}], "/": 6, "~1": 7, "~": 8}: the document of the
\* pointer checks, with a map, a sequence, a string and numbers.
PathDoc ==
    <<DictNode(0, <<>>),
      ListNode(1, <<"F">>),
      StrElem(2, 0, <<"F", "0">>),
      DictElem(2, 1),
      NumNode(4, <<"0">>),
      NumNode(1, <<"/">>),
      NumNode(1, <<"~", "1">>),
      NumNode(1, <<"~">>)>>

(***************************************************************************)
(* resolve_path(schema, fragment)                                          *)
(***************************************************************************)
Raise(kind) == [kind |-> kind, node |-> 0]

Return(n) == [kind |-> "ok", node |-> n]

\* part.replace('~1', '/').replace('~0', '~')
Unescape_swapped(part) == Replace2(Replace2(part, "~", "0", <<"~">>), "~", "1", <<"/">>)

Unescape(part) == Replace2(Replace2(part, "~", "1", <<"/">>), "~", "0", <<"~">>)

\* fragment.lstrip('/'), unquote, split('/'): the parts of the pointer.
Parts(fragment) ==
    LET f == LStrip(fragment, "/") IN
    IF f = <<>> THEN <<>> ELSE Split(Unquote(f), "/")

RECURSIVE resolve_parts(_, _, _)
\* The loop of resolve_path over the parts left.
resolve_parts(h, n, parts) ==
    IF parts = <<>> THEN Return(n)
    ELSE
    LET part == Unescape(Head(parts)) IN
    IF h[n].kind = "list"
    THEN \* schema[int(part)]
         IF ~IntOk(part) THEN Raise("ValueError")
         ELSE LET i == IntVal(part)
                  len == ListLen(h, n)
              IN IF i >= len \/ i < 0 - len THEN Raise("IndexError")
                 ELSE resolve_parts(h, Elem(h, n, IF i < 0 THEN i + len ELSE i),
                                    Tail(parts))
    ELSE IF h[n].kind = "dict"
    THEN IF HasKey(h, n, part)
         THEN resolve_parts(h, Member(h, n, part), Tail(parts))
         ELSE Raise("DefinitionError")
    ELSE IF h[n].kind = "str"
    THEN \* 'part in schema' is a substring test, and schema[part] then fails.
         IF IsSubstring(part, h[n].text) THEN Raise("TypeError")
         ELSE Raise("DefinitionError")
    ELSE \* 'part in schema' on a number, a boolean or None.
         Raise("TypeError")

resolve_path(h, n, fragment) == resolve_parts(h, n, Parts(fragment))

(***************************************************************************)
(* resolve_remote(uri, handlers).  What the world answers is an input:     *)
(*   env.k = "doc"      the handler, or the GET and the decoding, yields   *)
(*                      the document env.doc;                              *)
(*   env.k = "raise"    the handler, or urlopen, raises;                   *)
(*   env.k = "baddata"  the body fetched by urlopen does not decode.       *)
(***************************************************************************)
EnvDoc(d) == [k |-> "doc", doc |-> d]

EnvRaise == [k |-> "raise", doc |-> 0]

EnvBadData == [k |-> "baddata", doc |-> 0]

resolve_remote(uri, handlers, env) ==
    IF uri.scheme \in handlers
    THEN \* result = handler(uri)
         IF env.k = "doc" THEN Return(env.doc) ELSE Raise("HandlerError")
    ELSE \* req = urlopen(uri); json.loads(req.read().decode(encoding))
         IF env.k = "raise" THEN Raise("URLError")
         ELSE IF env.k = "baddata" THEN Raise("DefinitionError")
         ELSE Return(env.doc)

\* What the world may answer for a fetch of uri.
Envs(uri, handlers, docs) ==
    {EnvDoc(d) : d \in docs} \cup {EnvRaise}
    \cup (IF uri.scheme \in handlers THEN {} ELSE {EnvBadData})

(***************************************************************************)
(* RefResolver: scopes                                                     *)
(***************************************************************************)
KeyRef == <<"$", "r", "e", "f">>

KeyId == <<"$", "i", "d">>

KeyLegacyId == <<"i", "d">>

NoCacheScheme == "internal-no-cache"

\* in_scope without its try/finally: the old scope is not put back.
in_scope_finally_skipped(cur_scope, old_scope) == cur_scope

\* The 'finally' of in_scope: self.resolution_scope = old_scope.
in_scope_finally(cur_scope, old_scope) == old_scope

\* resolving without its try/finally: the old values are not put back.
resolving_finally_skipped(cur, old) == cur

\* The 'finally' of resolving: self.base_uri, self.schema = old values.
resolving_finally(cur, old) == old

\* The frame of an entered context manager: the locals its generator keeps
\* (old_*), and the values of the resolver when it was entered (entry).
Frame(kind, old_base_uri, old_schema, old_scope, entry) ==
    [kind |-> kind, old_base_uri |-> old_base_uri, old_schema |-> old_schema,
     old_scope |-> old_scope, entry |-> entry]

Scoped(b, s, sc) == [base_uri |-> b, schema |-> s, resolution_scope |-> sc]

\* in_scope(scope) up to its yield.
in_scope_enter(resolution_scope, scope) == fixed_urljoin(resolution_scope, scope)

(***************************************************************************)
(* RefResolver.resolving(ref) up to its yield: the selection of the        *)
(* document (select_schema) and the entry of the context                   *)
(* (resolving_enter), whose result names the resolver's fields afterwards, *)
(* whether the context was entered, and the outcome of the call.           *)
(***************************************************************************)
\* self.store[uri] = node
StorePut(store, uri, node) ==
    [u \in DOMAIN store \cup {uri} |-> IF u = uri THEN node ELSE store[u]]

\* select_schema with the root test before the store lookup.
select_schema_root_first(h, base_uri, schema, store, cache, handlers, uri, env) ==
    LET normalized_uri == normalize(uri) IN
    IF uri = EmptyUri \/ uri = base_uri
    THEN [source |-> "root", got |-> Return(schema), store |-> store]
    ELSE IF normalized_uri \in DOMAIN store
    THEN [source |-> "store", got |-> Return(store[normalized_uri]),
          store |-> store]
    ELSE LET got == resolve_remote(uri, handlers, env)
             keep == got.kind = "ok" /\ cache
                     /\ normalized_uri.scheme # NoCacheScheme
         IN [source |-> "remote", got |-> got,
             store |-> IF keep
                       THEN StorePut(store, normalized_uri, got.node)
                       ELSE store]

\* select_schema storing the document under the URI as written.
select_schema_raw_key(h, base_uri, schema, store, cache, handlers, uri, env) ==
    LET normalized_uri == normalize(uri) IN
    IF normalized_uri \in DOMAIN store
    THEN [source |-> "store", got |-> Return(store[normalized_uri]),
          store |-> store]
    ELSE IF uri = EmptyUri \/ uri = base_uri
    THEN [source |-> "root", got |-> Return(schema), store |-> store]
    ELSE LET got == resolve_remote(uri, handlers, env)
             keep == got.kind = "ok" /\ cache
                     /\ normalized_uri.scheme # NoCacheScheme
         IN [source |-> "remote", got |-> got,
             store |-> IF keep THEN StorePut(store, uri, got.node)
                       ELSE store]

\* select_schema without the test of the scheme.
select_schema_any_scheme(h, base_uri, schema, store, cache, handlers, uri, env) ==
    LET normalized_uri == normalize(uri) IN
    IF normalized_uri \in DOMAIN store
    THEN [source |-> "store", got |-> Return(store[normalized_uri]),
          store |-> store]
    ELSE IF uri = EmptyUri \/ uri = base_uri
    THEN [source |-> "root", got |-> Return(schema), store |-> store]
    ELSE LET got == resolve_remote(uri, handlers, env)
             keep == got.kind = "ok" /\ cache
         IN [source |-> "remote", got |-> got,
             store |-> IF keep
                       THEN StorePut(store, normalized_uri, got.node)
                       ELSE store]

\* The selection without the write of lines 162-165.
select_schema_no_store(h, base_uri, schema, store, cache, handlers, uri, env) ==
    LET normalized_uri == normalize(uri) IN
    IF normalized_uri \in DOMAIN store
    THEN [source |-> "store", got |-> Return(store[normalized_uri]),
          store |-> store]
    ELSE IF uri = EmptyUri \/ uri = base_uri
    THEN [source |-> "root", got |-> Return(schema), store |-> store]
    ELSE [source |-> "remote", got |-> resolve_remote(uri, handlers, env),
          store |-> store]

\* Lines 155-165: the document the reference selects.
select_schema(h, base_uri, schema, store, cache, handlers, uri, env) ==
    LET normalized_uri == normalize(uri) IN
    IF normalized_uri \in DOMAIN store
    THEN [source |-> "store", got |-> Return(store[normalized_uri]),
          store |-> store]
    ELSE IF uri = EmptyUri \/ uri = base_uri
    THEN [source |-> "root", got |-> Return(schema), store |-> store]
    ELSE LET got == resolve_remote(uri, handlers, env)
             keep == got.kind = "ok" /\ cache
                     /\ normalized_uri.scheme # NoCacheScheme
         IN [source |-> "remote", got |-> got,
             store |-> IF keep
                       THEN StorePut(store, normalized_uri, got.node)
                       ELSE store]

\* resolving with base_uri assigned before the document is fetched.
resolving_enter_swap_first(h, base_uri, schema, resolution_scope, uri, fragment, sel) ==
    IF sel.got.kind # "ok"
    THEN [base_uri |-> uri, schema |-> schema,
          resolution_scope |-> resolution_scope, entered |-> FALSE,
          kind |-> sel.got.kind, node |-> 0, doc |-> 0]
    ELSE
    LET doc == sel.got.node
        scope == in_scope_enter(resolution_scope, uri)
        target == resolve_path(h, doc, fragment)
    IN
    IF target.kind # "ok"
    THEN \* resolve_path raised inside both try blocks: both finally run.
         LET back == resolving_finally(<<uri, doc>>, <<base_uri, schema>>) IN
         [base_uri |-> back[1], schema |-> back[2],
          resolution_scope |-> in_scope_finally(scope, resolution_scope),
          entered |-> FALSE,
          kind |-> target.kind, node |-> 0, doc |-> doc]
    ELSE [base_uri |-> uri, schema |-> doc, resolution_scope |-> scope,
          entered |-> TRUE,
          kind |-> "ok", node |-> target.node, doc |-> doc]

\* Lines 167-173, after the document was selected (sel): the swap, the inner
\* in_scope and resolve_path, and both finally blocks when resolve_path
\* raises before the yield.
resolving_enter(h, base_uri, schema, resolution_scope, uri, fragment, sel) ==
    IF sel.got.kind # "ok"
    THEN \* resolve_remote raised: nothing was assigned yet.
         [base_uri |-> base_uri, schema |-> schema,
          resolution_scope |-> resolution_scope, entered |-> FALSE,
          kind |-> sel.got.kind, node |-> 0, doc |-> 0]
    ELSE
    LET doc == sel.got.node
        scope == in_scope_enter(resolution_scope, uri)
        target == resolve_path(h, doc, fragment)
    IN
    IF target.kind # "ok"
    THEN \* resolve_path raised inside both try blocks: both finally run.
         LET back == resolving_finally(<<uri, doc>>, <<base_uri, schema>>) IN
         [base_uri |-> back[1], schema |-> back[2],
          resolution_scope |-> in_scope_finally(scope, resolution_scope),
          entered |-> FALSE,
          kind |-> target.kind, node |-> 0, doc |-> doc]
    ELSE [base_uri |-> uri, schema |-> doc, resolution_scope |-> scope,
          entered |-> TRUE,
          kind |-> "ok", node |-> target.node, doc |-> doc]

(***************************************************************************)
(* RefResolver.walk, __init__ and from_schema                              *)
(***************************************************************************)
RECURSIVE SeqOfSet(_)
\* The ids of a set of nodes, ascending: the insertion order of a dict.
SeqOfSet(S) ==
    IF S = {} THEN <<>>
    ELSE LET m == CHOOSE x \in S : \A y \in S : x <= y
         IN <<m>> \o SeqOfSet(S \ {m})

\* get_id(schema): schema.get('$id', schema.get('id', '')), as whether the
\* value is a string and, when it is, the URI it holds.
get_id(h, n) ==
    IF HasKey(h, n, KeyId)
    THEN [str |-> h[Member(h, n, KeyId)].kind = "str",
          uri |-> h[Member(h, n, KeyId)].uri]
    ELSE IF HasKey(h, n, KeyLegacyId)
    THEN [str |-> h[Member(h, n, KeyLegacyId)].kind = "str",
          uri |-> h[Member(h, n, KeyLegacyId)].uri]
    ELSE [str |-> TRUE, uri |-> EmptyUri]

\* for _, item in node.items(): the values walk descends into.
walk_children(h, n) ==
    SeqOfSet({m \in Members(h, n) : h[m].kind = "dict"})

RECURSIVE walk(_, _, _, _)
RECURSIVE walk_items(_, _, _, _)
\* walk(node) under the scope in force: the heap and the store afterwards.
walk(h, store, scope, n) ==
    IF h[n].kind = "bool" THEN [h |-> h, store |-> store]
    ELSE IF HasKey(h, n, KeyRef) /\ h[Member(h, n, KeyRef)].kind = "str"
    THEN LET r == Member(h, n, KeyRef) IN
         [h |-> [h EXCEPT ![r].uri = fixed_urljoin(scope, h[r].uri)],
          store |-> store]
    ELSE IF (HasKey(h, n, KeyId) \/ HasKey(h, n, KeyLegacyId))
            /\ get_id(h, n).str
    THEN LET inner == in_scope_enter(scope, get_id(h, n).uri) IN
         walk_items(h, StorePut(store, normalize(inner), n), inner,
                    walk_children(h, n))
    ELSE walk_items(h, store, scope, walk_children(h, n))

walk_items(h, store, scope, items) ==
    IF items = <<>> THEN [h |-> h, store |-> store]
    ELSE LET w == walk(h, store, scope, Head(items))
         IN walk_items(w.h, w.store, scope, Tail(items))

\* RefResolver.__init__(base_uri, schema, store, cache, handlers).
init(h, base_uri, schema, store, cache, handlers) ==
    LET w == walk(h, store, base_uri, schema) IN
    [heap |-> w.h, base_uri |-> base_uri, resolution_scope |-> base_uri,
     schema |-> schema, store |-> w.store, cache |-> cache,
     handlers |-> handlers,
     unique_name_registry |-> <<>>, unique_names_taken |-> {}]

\* RefResolver.from_schema(schema, handlers, **kwargs).
from_schema(h, schema, store, cache, handlers) ==
    init(h, IF h[schema].kind = "dict" THEN get_id(h, schema).uri ELSE EmptyUri,
         schema, store, cache, handlers)

(***************************************************************************)
(* RefResolver.get_scope_name.  The scope is a string to this code: the    *)
(* text of the URI, character by character.                                *)
(***************************************************************************)
\* The characters of the scheme, host and path-segment names in use.
Chars(s) ==
    CASE s = "" -> <<>>
      [] s = "http" -> <<"h", "t", "t", "p">>
      [] s = "https" -> <<"h", "t", "t", "p", "s">>
      [] s = "custom" -> <<"c", "u", "s", "t", "o", "m">>
      [] s = "internal-no-cache" ->
            <<"i", "n", "t", "e", "r", "n", "a", "l", "-", "n", "o", "-",
              "c", "a", "c", "h", "e">>
      [] s = "sub" -> <<"s", "u", "b">>
      [] s = "a_0" -> <<"a", "_", "0">>
      [] s = "a~1" -> <<"a", "~", "1">>
      [] s = "a%2F0" -> <<"a", "%", "2", "F", "0">>
      [] s = ".." -> <<".", ".">>
      [] OTHER -> <<s>>

RECURSIVE JoinChars(_)
\* '/'.join(path)
JoinChars(path) ==
    IF path = <<>> THEN <<>>
    ELSE IF Len(path) = 1 THEN Chars(path[1])
    ELSE Chars(path[1]) \o <<"/">> \o JoinChars(Tail(path))

\* The text of a URI.
UriText(u) ==
    (IF u.scheme = "" THEN <<>> ELSE Chars(u.scheme) \o <<":">>)
    \o (IF u.auth = "" THEN <<>> ELSE <<"/", "/">> \o Chars(u.auth))
    \o JoinChars(u.path)
    \o (IF u.q THEN <<"?">> ELSE <<>>)
    \o (IF u.hash THEN <<"#">> \o u.frag ELSE <<>>)

LowerLetters ==
    {"a", "b", "c", "d", "e", "f", "g", "h", "i", "j", "k", "l", "m",
     "n", "o", "p", "q", "r", "s", "t", "u", "v", "w", "x", "y", "z"}

\* c.lower(), for the upper-case letters in use.
Lower(c) ==
    CASE c = "A" -> "a" [] c = "B" -> "b" [] c = "F" -> "f" [] c = "H" -> "h"
      [] OTHER -> c

UpperLetters == {"A", "B", "F", "H"}

RECURSIVE Remove(_, _)
\* s.replace(c, '')
Remove(s, c) ==
    IF s = <<>> THEN <<>>
    ELSE IF Head(s) = c THEN Remove(Tail(s), c)
         ELSE <<Head(s)>> \o Remove(Tail(s), c)

RECURSIVE SubNonAlnum_collapsed(_)
\* The substitution with each run of such characters made one '_'.
SubNonAlnum_collapsed(s) ==
    IF s = <<>> THEN <<>>
    ELSE LET c == IF Head(s) \in LowerLetters \cup UpperLetters \cup Digits
                  THEN Head(s) ELSE "_"
             rest == SubNonAlnum_collapsed(Tail(s))
         IN  IF c = "_" /\ rest # <<>> /\ Head(rest) = "_" THEN rest
             ELSE <<c>> \o rest

\* re.sub(r'($[^a-zA-Z]|[^a-zA-Z0-9])', '_', name): each character that is
\* not an ASCII letter or digit becomes one '_'.
SubNonAlnum(s) ==
    [i \in 1..Len(s) |->
        IF s[i] \in LowerLetters \cup UpperLetters \cup Digits
        THEN s[i] ELSE "_"]

RECURSIVE DecChars(_)
\* str(idx), idx >= 0
DecChars(n) ==
    LET d == CHOOSE c \in Digits : DigitVal(c) = n % 10 IN
    IF n < 10 THEN <<d>> ELSE DecChars(n \div 10) \o <<d>>

\* Lines 183-186: the base name of a scope.
base_name(scope) ==
    LET n0 == <<"v", "a", "l", "i", "d", "a", "t", "e", "_">>
              \o Unquote(UriText(scope))
        n1 == Remove(Replace2(Replace2(n0, "~", "1", <<"_">>),
                              "~", "0", <<"_">>), "\"")
        n2 == SubNonAlnum(n1)
        n3 == [i \in 1..Len(n2) |-> Lower(n2[i])]
    IN RStrip(n3, "_")

\* The loop as a single test: one suffix, not tested again.
unique_from_once(name, taken, idx) ==
    IF name \in taken THEN name \o <<"_", "0">> ELSE name

RECURSIVE unique_from(_, _, _)
\* Lines 188-192: the while loop, entered with idx.
unique_from(name, taken, idx) ==
    LET unique_name == IF idx = -1 THEN name
                       ELSE name \o <<"_">> \o DecChars(idx)
    IN IF unique_name \in taken THEN unique_from(name, taken, idx + 1)
       ELSE unique_name

\* get_scope_name without the test of the registry: a name is allocated at
\* every call.
get_scope_name_always(resolution_scope, registry, taken) ==
    LET unique_name == unique_from(base_name(resolution_scope), taken, -1)
    IN [registry |-> StorePut(registry, resolution_scope, unique_name),
        taken |-> taken \cup {unique_name},
        name |-> unique_name]

\* get_scope_name(): the registry and the taken names afterwards, and the
\* name returned.
get_scope_name(resolution_scope, registry, taken) ==
    IF resolution_scope \notin DOMAIN registry
    THEN LET unique_name == unique_from(base_name(resolution_scope), taken, -1)
         IN [registry |-> StorePut(registry, resolution_scope, unique_name),
             taken |-> taken \cup {unique_name},
             name |-> unique_name]
    ELSE [registry |-> registry, taken |-> taken,
          name |-> registry[resolution_scope]]

(***************************************************************************)
(* State                                                                   *)
(***************************************************************************)
VARIABLES
    heap,                   \* the JSON values: node id -> node
    base_uri,               \* RefResolver.base_uri
    schema,                 \* RefResolver.schema: the id of the root node
    resolution_scope,       \* RefResolver.resolution_scope
    store,                  \* RefResolver.store: normalized URI -> node id
    cache,                  \* RefResolver.cache
    handlers,               \* the schemes RefResolver.handlers has a handler for
    unique_name_registry,   \* RefResolver.unique_name_registry: scope -> name
    unique_names_taken,     \* RefResolver.unique_names_taken
    ctx,                    \* the context managers entered, innermost last
    ret,                    \* what the last call saw and gave back
    fetches,                \* the normalized URIs a fetch has succeeded for
    pc,                     \* "new" before the call under study, then its phase
    arg                     \* the arguments of the call under study

vars == <<heap, base_uri, schema, resolution_scope, store, cache, handlers,
          unique_name_registry, unique_names_taken, ctx, ret, fetches, pc, arg>>

resolver == <<base_uri, schema, resolution_scope, store, cache, handlers,
              unique_name_registry, unique_names_taken>>

NoRet == [op |-> "none"]

\* The resolver's fields take the values of a constructed resolver r.
Becomes(r) ==
    /\ heap' = r.heap
    /\ base_uri' = r.base_uri
    /\ schema' = r.schema
    /\ resolution_scope' = r.resolution_scope
    /\ store' = r.store
    /\ cache' = r.cache
    /\ handlers' = r.handlers
    /\ unique_name_registry' = r.unique_name_registry
    /\ unique_names_taken' = r.unique_names_taken

Constructed(r) ==
    /\ heap = r.heap
    /\ base_uri = r.base_uri
    /\ schema = r.schema
    /\ resolution_scope = r.resolution_scope
    /\ store = r.store
    /\ cache = r.cache
    /\ handlers = r.handlers
    /\ unique_name_registry = r.unique_name_registry
    /\ unique_names_taken = r.unique_names_taken

(***************************************************************************)
(* Bounds                                                                  *)
(***************************************************************************)
\* The context managers entered at once.
MaxDepth == 2

(***************************************************************************)
(* Resolving: a constructed resolver, references resolved and scopes       *)
(* entered and left.                                                       *)
(***************************************************************************)
Frag_d == <<"/", "d">>

U_a == Uri("http", "h", <<"", "a">>, FALSE, FALSE, <<>>)

U_a_hash == Uri("http", "h", <<"", "a">>, FALSE, TRUE, <<>>)

U_b_rel == Uri("", "", <<"b">>, FALSE, FALSE, <<>>)

U_custom_a == Uri("custom", "h", <<"", "a">>, FALSE, FALSE, <<>>)

U_custom_a_q == Uri("custom", "h", <<"", "a">>, TRUE, FALSE, <<>>)

U_r == Uri("http", "h", <<"", "r">>, FALSE, FALSE, <<>>)

U_r_d == Uri("http", "h", <<"", "r">>, FALSE, TRUE, Frag_d)

U_n == Uri(NoCacheScheme, "x", <<"", "n">>, FALSE, FALSE, <<>>)

U_n_d == Uri(NoCacheScheme, "x", <<"", "n">>, FALSE, TRUE, Frag_d)

U_frag_d == Uri("", "", <<>>, FALSE, TRUE, Frag_d)

\* 1: {"$id": "http://h/a#", "d": {}, "s": {"$id": "b"}}
\* 6: {"d": {}}            a schema without an id
\* 8: {"d": {}}, 10: {}    the documents a fetch may yield
MainHeap ==
    <<DictNode(0, <<>>),
      UriNode(1, KeyId, U_a_hash),
      DictNode(1, <<"d">>),
      DictNode(1, <<"s">>),
      UriNode(4, KeyId, U_b_rel),
      DictNode(0, <<>>),
      DictNode(6, <<"d">>),
      DictNode(0, <<>>),
      DictNode(8, <<"d">>),
      DictNode(0, <<>>)>>

RemoteDocs == {8, 10}

Refs == {U_frag_d, U_r, U_r_d, U_n_d, U_custom_a_q}

Scopes == {U_b_rel, U_n}

HandlerSets == {{"custom", NoCacheScheme}}

Init ==
    /\ \E c \in BOOLEAN, hs \in HandlerSets :
       \E r \in {from_schema(MainHeap, 1, <<>>, c, hs),
                 init(MainHeap, U_custom_a, 6, <<>>, c, hs)} : Constructed(r)
    /\ ctx = <<>>
    /\ ret = NoRet
    /\ fetches = {}
    /\ pc = "ready"
    /\ arg = <<>>

\* with self.resolving(ref): up to the yield, or to the exception
ResolvingCall(ref) ==
    /\ Len(ctx) < MaxDepth
    /\ \E new_uri \in {fixed_urljoin(resolution_scope, ref)} :
       \E uri \in {UrlDefrag(new_uri)} :
       \E normalized_uri \in {normalize(uri)} :
       \E probe \in {select_schema(heap, base_uri, schema, store, cache,
                                   handlers, uri, EnvRaise).source} :
       \E env \in IF probe = "remote" THEN Envs(uri, handlers, RemoteDocs)
                  ELSE {EnvRaise} :
       \E sel \in {select_schema(heap, base_uri, schema, store, cache,
                                 handlers, uri, env)} :
       \E r \in {resolving_enter(heap, base_uri, schema, resolution_scope,
                                 uri, new_uri.frag, sel)} :
            /\ base_uri' = r.base_uri
            /\ schema' = r.schema
            /\ resolution_scope' = r.resolution_scope
            /\ store' = sel.store
            /\ ret' = [op |-> "resolving", uri |-> uri,
                       fragment |-> new_uri.frag,
                       normalized_uri |-> normalized_uri,
                       in_store |-> normalized_uri \in DOMAIN store,
                       own |-> (uri = EmptyUri \/ uri = base_uri),
                       root |-> schema,
                       source |-> sel.source,
                       fetched |-> sel.source = "remote",
                       known |-> normalized_uri \in fetches,
                       kind |-> r.kind, node |-> r.node, doc |-> r.doc]
            /\ ctx' = IF r.entered
                      THEN Append(ctx, Frame("resolving", base_uri, schema,
                                             resolution_scope,
                                             Scoped(base_uri, schema,
                                                    resolution_scope)))
                      ELSE ctx
            /\ fetches' = IF sel.source = "remote" /\ r.doc # 0
                           THEN fetches \cup {normalized_uri}
                           ELSE fetches
    /\ UNCHANGED <<heap, cache, handlers, unique_name_registry,
                   unique_names_taken>>

Resolving(ref) ==
    /\ pc = "ready"
    /\ ResolvingCall(ref)
    /\ UNCHANGED <<pc, arg>>

\* The body of a resolving context ends, by returning or by raising: the
\* generator runs both finally blocks.
ExitResolving(how) ==
    /\ pc = "ready"
    /\ ctx # <<>>
    /\ Last(ctx).kind = "resolving"
    /\ LET f == Last(ctx)
           back == resolving_finally(<<base_uri, schema>>,
                                     <<f.old_base_uri, f.old_schema>>)
       IN /\ resolution_scope' = in_scope_finally(resolution_scope, f.old_scope)
          /\ base_uri' = back[1]
          /\ schema' = back[2]
    /\ ctx' = Front(ctx)
    /\ ret' = [op |-> "exit", of |-> "resolving", how |-> how]
    /\ UNCHANGED <<heap, store, cache, handlers, unique_name_registry,
                   unique_names_taken, fetches, pc, arg>>

\* with self.in_scope(scope): up to the yield
InScope(scope) ==
    /\ pc = "ready"
    /\ Len(ctx) < MaxDepth
    /\ \E new_scope \in {in_scope_enter(resolution_scope, scope)} :
         resolution_scope' = new_scope
    /\ ctx' = Append(ctx, Frame("in_scope", EmptyUri, 0, resolution_scope,
                                Scoped(base_uri, schema, resolution_scope)))
    /\ ret' = [op |-> "in_scope"]
    /\ UNCHANGED <<heap, base_uri, schema, store, cache, handlers,
                   unique_name_registry, unique_names_taken, fetches, pc, arg>>

\* The body of an in_scope context ends, by returning or by raising.
ExitInScope(how) ==
    /\ pc = "ready"
    /\ ctx # <<>>
    /\ Last(ctx).kind = "in_scope"
    /\ resolution_scope' = in_scope_finally(resolution_scope, Last(ctx).old_scope)
    /\ ctx' = Front(ctx)
    /\ ret' = [op |-> "exit", of |-> "in_scope", how |-> how]
    /\ UNCHANGED <<heap, base_uri, schema, store, cache, handlers,
                   unique_name_registry, unique_names_taken, fetches, pc, arg>>

Hows == {"return", "raise"}

Next ==
    \/ \E ref \in Refs : Resolving(ref)
    \/ \E how \in Hows : ExitResolving(how)
    \/ \E scope \in Scopes : InScope(scope)
    \/ \E how \in Hows : ExitInScope(how)

Spec == Init /\ [][Next]_vars

(***************************************************************************)
(* Naming: scopes entered and left on a constructed resolver, and          *)
(* get_scope_name called in them.                                          *)
(***************************************************************************)
\* The scopes named at once.
MaxNames == 3

\* The scopes entered at once while naming.
MaxNameDepth == 1

U_a_dir == Uri("http", "h", <<"", "a", "">>, FALSE, FALSE, <<>>)

U_A == Uri("http", "h", <<"", "A">>, FALSE, FALSE, <<>>)

U_a_0 == Uri("http", "h", <<"", "a", "0">>, FALSE, FALSE, <<>>)

U_a_us_0 == Uri("http", "h", <<"", "a_0">>, FALSE, FALSE, <<>>)

U_a_esc_0 == Uri("http", "h", <<"", "a%2F0">>, FALSE, FALSE, <<>>)

\* http://h/a/, http://h/A, http://h/a/0, http://h/a_0, http://h/a%2F0
NameScopes == {U_a_dir, U_A, U_a_0, U_a_us_0, U_a_esc_0}

InitNames ==
    /\ \E r \in {init(MainHeap, U_a, 6, <<>>, TRUE, {})} : Constructed(r)
    /\ ctx = <<>>
    /\ ret = NoRet
    /\ fetches = {}
    /\ pc = "ready"
    /\ arg = <<>>

\* with self.in_scope(scope): up to the yield
NameInScope(scope) ==
    /\ Len(ctx) < MaxNameDepth
    /\ InScope(scope)

\* self.get_scope_name()
GetScopeName ==
    /\ pc = "ready"
    /\ \/ resolution_scope \in DOMAIN unique_name_registry
       \/ Cardinality(DOMAIN unique_name_registry) < MaxNames
    /\ \E g \in {get_scope_name(resolution_scope, unique_name_registry,
                                unique_names_taken)} :
         /\ unique_name_registry' = g.registry
         /\ unique_names_taken' = g.taken
         /\ ret' = [op |-> "get_scope_name", name |-> g.name,
                    scope |-> resolution_scope,
                    known |-> resolution_scope \in DOMAIN unique_name_registry]
    /\ UNCHANGED <<heap, base_uri, schema, resolution_scope, store, cache,
                   handlers, ctx, fetches, pc, arg>>

NextNames ==
    \/ \E scope \in NameScopes : NameInScope(scope)
    \/ \E how \in Hows : ExitInScope(how)
    \/ GetScopeName

SpecNames == InitNames /\ [][NextNames]_vars

(***************************************************************************)
(* Pointers: resolve_path applied to a node of a document and a fragment.  *)
(***************************************************************************)
\* The characters of a fragment.
MaxFragLen == 4

FragAlphabet == {"/", "F", "0", "1", "2", "~", "-", "%"}

Frags == UNION {[1..n -> FragAlphabet] : n \in 0..MaxFragLen}

InitPath ==
    /\ heap = PathDoc
    /\ arg \in [node : DOMAIN PathDoc, fragment : Frags]
    /\ pc = "new"
    /\ ret = NoRet
    /\ base_uri = EmptyUri
    /\ schema = 1
    /\ resolution_scope = EmptyUri
    /\ store = <<>>
    /\ cache = TRUE
    /\ handlers = {}
    /\ unique_name_registry = <<>>
    /\ unique_names_taken = {}
    /\ ctx = <<>>
    /\ fetches = {}

\* resolve_path(schema, fragment)
ResolvePath ==
    /\ pc = "new"
    /\ pc' = "done"
    /\ ret' = resolve_path(heap, arg.node, arg.fragment) @@ [op |-> "resolve_path"]
    /\ UNCHANGED <<heap, base_uri, schema, resolution_scope, store, cache,
                   handlers, unique_name_registry, unique_names_taken, ctx,
                   fetches, arg>>

NextPath == ResolvePath

SpecPath == InitPath /\ [][NextPath]_vars

(***************************************************************************)
(* Construction: a resolver built over a schema tree, by the constructor   *)
(* or by from_schema; the constructor runs walk over the tree.             *)
(***************************************************************************)
U_x_y == Uri("http", "x", <<"", "y">>, FALSE, FALSE, <<>>)

U_c_rel == Uri("", "", <<"c">>, FALSE, FALSE, <<>>)

U_sub_dir == Uri("", "", <<"sub", "">>, FALSE, FALSE, <<>>)

U_e_rel == Uri("", "", <<"e">>, FALSE, FALSE, <<>>)

U_f_rel == Uri("", "", <<"f">>, FALSE, FALSE, <<>>)

\* A field the tree does not have.
Absent == Node("absent", 0, <<>>, 0, EmptyUri, <<>>)

Opt(present, node) == IF present THEN node ELSE Absent

\* {"$id": "http://h/a/",
\*  "anyOf": [{"$ref": "b", "$id": "http://x/y"}],
\*  "not": {"$ref": "c", "$id": "sub/", "items": {"$ref": "e", "$id": "f"}}}
\* with each $id and $ref there or not.
WalkTree(c) ==
    <<DictNode(0, <<>>),
      Opt(c.rootid, UriNode(1, KeyId, U_a_dir)),
      ListNode(1, <<"a", "n", "y", "O", "f">>),
      DictElem(3, 0),
      Opt(c.aref, UriNode(4, KeyRef, U_b_rel)),
      Opt(c.aid, UriNode(4, KeyId, U_x_y)),
      DictNode(1, <<"n", "o", "t">>),
      Opt(c.nref, UriNode(7, KeyRef, U_c_rel)),
      Opt(c.nid, UriNode(7, KeyId, U_sub_dir)),
      DictNode(7, <<"i", "t", "e", "m", "s">>),
      Opt(c.iref, UriNode(10, KeyRef, U_e_rel)),
      Opt(c.iid, UriNode(10, KeyId, U_f_rel))>>

WalkTrees ==
    {WalkTree(c) : c \in [rootid : BOOLEAN, aref : BOOLEAN, aid : BOOLEAN,
                          nref : BOOLEAN, nid : BOOLEAN, iref : BOOLEAN,
                          iid : BOOLEAN]}

WalkBases == {U_a, U_custom_a}

InitWalk ==
    /\ heap \in WalkTrees
    /\ arg = [tree |-> heap]
    /\ pc = "new"
    /\ ret = NoRet
    /\ base_uri = EmptyUri
    /\ schema = 1
    /\ resolution_scope = EmptyUri
    /\ store = <<>>
    /\ cache = TRUE
    /\ handlers = {}
    /\ unique_name_registry = <<>>
    /\ unique_names_taken = {}
    /\ ctx = <<>>
    /\ fetches = {}

\* RefResolver(base, schema, store={})
Construct(base) ==
    /\ pc = "new"
    /\ \E r \in {init(heap, base, schema, <<>>, cache, handlers)} : Becomes(r)
    /\ pc' = "ready"
    /\ ret' = [op |-> "init"]
    /\ UNCHANGED <<ctx, fetches, arg>>

\* RefResolver.from_schema(schema, store={})
FromSchema ==
    /\ pc = "new"
    /\ \E r \in {from_schema(heap, schema, <<>>, cache, handlers)} : Becomes(r)
    /\ pc' = "ready"
    /\ ret' = [op |-> "from_schema"]
    /\ UNCHANGED <<ctx, fetches, arg>>

NextWalk ==
    \/ \E base \in WalkBases : Construct(base)
    \/ FromSchema

SpecWalk == InitWalk /\ [][NextWalk]_vars

(***************************************************************************)
(* Instances: two resolvers constructed one after the other, each with or  *)
(* without a store argument.  `store={}` in the signature of __init__ is   *)
(* one dict, made when the def statement runs; self.store of a resolver    *)
(* constructed without the argument is that dict.  The variables hold the  *)
(* second resolver; arg holds the first, and the contents of the default   *)
(* dict for as long as the second resolver's store is another dict.        *)
(***************************************************************************)
\* RefResolver.from_schema(root 1), or RefResolver('custom://h/a', root 6).
new_resolver(h, root, store_in, c, hs) ==
    IF root = 1 THEN from_schema(h, root, store_in, c, hs)
    ELSE init(h, U_custom_a, root, store_in, c, hs)

InitInstances ==
    /\ heap = MainHeap
    /\ pc = "new"
    /\ arg = [default_store |-> <<>>, first |-> [made |-> FALSE],
              second_supplied |-> FALSE]
    /\ ret = NoRet
    /\ base_uri = EmptyUri
    /\ schema = 0
    /\ resolution_scope = EmptyUri
    /\ store = <<>>
    /\ cache \in BOOLEAN
    /\ handlers \in HandlerSets
    /\ unique_name_registry = <<>>
    /\ unique_names_taken = {}
    /\ ctx = <<>>
    /\ fetches = {}

\* The contents of the dict the default argument names.
DefaultStore ==
    IF pc = "ready" /\ ~arg.second_supplied THEN store ELSE arg.default_store

\* The contents of the first resolver's self.store.
FirstStore ==
    IF arg.first.supplied THEN arg.first.own_store ELSE DefaultStore

\* first = RefResolver(...) or RefResolver(..., store={})
ConstructFirst(root, supplied) ==
    /\ pc = "new"
    /\ \E r \in {new_resolver(heap, root, IF supplied THEN <<>> ELSE DefaultStore,
                              cache, handlers)} :
         /\ heap' = r.heap
         /\ arg' = [default_store |-> IF supplied THEN arg.default_store
                                      ELSE r.store,
                    first |-> [made |-> TRUE, supplied |-> supplied,
                               own_store |-> IF supplied THEN r.store ELSE <<>>,
                               base_uri |-> r.base_uri, schema |-> r.schema],
                    second_supplied |-> FALSE]
    /\ pc' = "first"
    /\ ret' = [op |-> "init"]
    /\ UNCHANGED <<base_uri, schema, resolution_scope, store, cache, handlers,
                   unique_name_registry, unique_names_taken, ctx, fetches>>

\* second = RefResolver(...) or RefResolver(..., store={})
ConstructSecond(root, supplied) ==
    /\ pc = "first"
    /\ root # arg.first.schema
    /\ \E r \in {new_resolver(heap, root, IF supplied THEN <<>> ELSE DefaultStore,
                              cache, handlers)} :
         /\ Becomes(r)
         /\ arg' = [arg EXCEPT !.second_supplied = supplied]
    /\ pc' = "ready"
    /\ ret' = [op |-> "init"]
    /\ UNCHANGED <<ctx, fetches>>

\* with second.resolving(ref): up to the yield, no context being open
SecondResolving(ref) ==
    /\ ctx = <<>>
    /\ Resolving(ref)

InstanceRefs == {U_a, U_r, U_r_d, U_n_d, U_custom_a_q}

NextInstances ==
    \/ \E root \in {1, 6}, supplied \in BOOLEAN : ConstructFirst(root, supplied)
    \/ \E root \in {1, 6}, supplied \in BOOLEAN : ConstructSecond(root, supplied)
    \/ \E ref \in InstanceRefs : SecondResolving(ref)
    \/ \E how \in Hows : ExitResolving(how)

SpecInstances == InitInstances /\ [][NextInstances]_vars

(***************************************************************************)
(* Concurrency: two threads, each with a resolver of its own, both         *)
(* resolvers given the same store.  resolving(ref) is cut where another    *)
(* thread can run: after the lookup of lines 152-158, after the fetch of   *)
(* line 161, and after the write of lines 162-165.  arg[t] holds the       *)
(* fields of the resolver of thread t and the locals of its call.          *)
(***************************************************************************)
Threads == {1, 2}

ThreadRefs == {U_r, U_r_d, U_n_d}

\* The resolver of a thread, no call running.
Idle(r) ==
    [base_uri |-> r.base_uri, schema |-> r.schema,
     resolution_scope |-> r.resolution_scope, old |-> <<>>,
     uri |-> EmptyUri, fragment |-> <<>>, normalized_uri |-> EmptyUri,
     doc |-> 0, source |-> "none"]

InitConcurrent ==
    /\ \E c \in BOOLEAN, hs \in HandlerSets :
       \E r1 \in {from_schema(MainHeap, 1, <<>>, c, hs)} :
       \E r2 \in {init(r1.heap, U_custom_a, 6, r1.store, c, hs)} :
         /\ heap = r2.heap
         /\ store = r2.store
         /\ cache = c
         /\ handlers = hs
         /\ arg = <<Idle(r1), Idle(r2)>>
    /\ pc = <<"idle", "idle">>
    /\ ret = NoRet
    /\ base_uri = EmptyUri
    /\ schema = 0
    /\ resolution_scope = EmptyUri
    /\ unique_name_registry = <<>>
    /\ unique_names_taken = {}
    /\ ctx = <<>>
    /\ fetches = {}

ThreadFrame ==
    <<heap, base_uri, schema, resolution_scope, cache, handlers,
      unique_name_registry, unique_names_taken, ctx>>

\* Lines 152-158: the join, the lookup in the store and the test for the
\* resolver's own document.
Lookup(t, ref) ==
    /\ pc[t] = "idle"
    /\ \E new_uri \in {fixed_urljoin(arg[t].resolution_scope, ref)} :
       \E uri \in {UrlDefrag(new_uri)} :
       \E normalized_uri \in {normalize(uri)} :
       \E source \in {IF normalized_uri \in DOMAIN store THEN "store"
                      ELSE IF uri = EmptyUri \/ uri = arg[t].base_uri
                      THEN "root" ELSE "remote"} :
         /\ arg' = [arg EXCEPT ![t] =
                      [@ EXCEPT !.uri = uri, !.fragment = new_uri.frag,
                                !.normalized_uri = normalized_uri,
                                !.source = source,
                                !.doc = IF source = "store"
                                        THEN store[normalized_uri]
                                        ELSE IF source = "root"
                                        THEN arg[t].schema ELSE 0]]
         /\ pc' = [pc EXCEPT ![t] = IF source = "remote" THEN "fetch"
                                     ELSE "selected"]
         /\ ret' = [op |-> "lookup", thread |-> t, source |-> source]
    /\ UNCHANGED <<store, fetches>>
    /\ UNCHANGED ThreadFrame

\* Line 161: schema = resolve_remote(uri, self.handlers)
Fetch(t) ==
    /\ pc[t] = "fetch"
    /\ \E env \in Envs(arg[t].uri, handlers, RemoteDocs) :
       \E got \in {resolve_remote(arg[t].uri, handlers, env)} :
         /\ arg' = [arg EXCEPT ![t] =
                      IF got.kind = "ok" THEN [@ EXCEPT !.doc = got.node]
                      ELSE Idle(arg[t])]
         /\ pc' = [pc EXCEPT ![t] = IF got.kind = "ok" THEN "fetched"
                                     ELSE "idle"]
         /\ ret' = [op |-> "fetch", thread |-> t, kind |-> got.kind]
         /\ fetches' = IF got.kind = "ok"
                        THEN fetches \cup {arg[t].normalized_uri}
                        ELSE fetches
    /\ UNCHANGED store
    /\ UNCHANGED ThreadFrame

\* Lines 162-165: the write of the fetched document into the store.
Store(t) ==
    /\ pc[t] = "fetched"
    /\ store' = IF cache /\ arg[t].normalized_uri.scheme # NoCacheScheme
                THEN StorePut(store, arg[t].normalized_uri, arg[t].doc)
                ELSE store
    /\ pc' = [pc EXCEPT ![t] = "selected"]
    /\ ret' = [op |-> "store", thread |-> t,
               uri |-> arg[t].normalized_uri, doc |-> arg[t].doc]
    /\ UNCHANGED <<arg, fetches>>
    /\ UNCHANGED ThreadFrame

\* Lines 167-171: the swap, the inner in_scope and resolve_path, to the
\* yield or to the exception.
Yield(t) ==
    /\ pc[t] = "selected"
    /\ \E r \in {resolving_enter(heap, arg[t].base_uri, arg[t].schema,
                                 arg[t].resolution_scope, arg[t].uri,
                                 arg[t].fragment,
                                 [got |-> Return(arg[t].doc)])} :
         /\ arg' = [arg EXCEPT ![t] =
                      IF r.entered
                      THEN [@ EXCEPT !.base_uri = r.base_uri,
                                     !.schema = r.schema,
                                     !.resolution_scope = r.resolution_scope,
                                     !.old = <<arg[t].base_uri, arg[t].schema,
                                               arg[t].resolution_scope>>]
                      ELSE Idle(arg[t])]
         /\ pc' = [pc EXCEPT ![t] = IF r.entered THEN "yielded" ELSE "idle"]
         /\ ret' = [op |-> "yield", thread |-> t, kind |-> r.kind,
                    node |-> r.node]
    /\ UNCHANGED <<store, fetches>>
    /\ UNCHANGED ThreadFrame

\* Lines 143-144 and 172-173: the body ends, both finally blocks run.
Leave(t) ==
    /\ pc[t] = "yielded"
    /\ LET back == resolving_finally(<<arg[t].base_uri, arg[t].schema>>,
                                     <<arg[t].old[1], arg[t].old[2]>>)
       IN arg' = [arg EXCEPT ![t] =
                    Idle([base_uri |-> back[1], schema |-> back[2],
                          resolution_scope |->
                              in_scope_finally(arg[t].resolution_scope,
                                               arg[t].old[3])])]
    /\ pc' = [pc EXCEPT ![t] = "idle"]
    /\ ret' = [op |-> "exit", thread |-> t]
    /\ UNCHANGED <<store, fetches>>
    /\ UNCHANGED ThreadFrame

NextConcurrent ==
    \/ \E t \in Threads, ref \in ThreadRefs : Lookup(t, ref)
    \/ \E t \in Threads : Fetch(t)
    \/ \E t \in Threads : Store(t)
    \/ \E t \in Threads : Yield(t)
    \/ \E t \in Threads : Leave(t)

SpecConcurrent == InitConcurrent /\ [][NextConcurrent]_vars

(***************************************************************************)
(* Repetition: on a constructed resolver, possibly inside a scope, one     *)
(* reference resolved, its context left, and the same reference resolved   *)
(* again.  arg holds the reference and the outcome of the first call.      *)
(***************************************************************************)
InitTwice ==
    /\ \E c \in BOOLEAN, hs \in HandlerSets :
       \E r \in {from_schema(MainHeap, 1, <<>>, c, hs),
                 init(MainHeap, U_custom_a, 6, <<>>, c, hs)} : Constructed(r)
    /\ ctx = <<>>
    /\ ret = NoRet
    /\ fetches = {}
    /\ pc = "ready"
    /\ arg = [n |-> 0]

\* with self.in_scope(scope): before the first call
TwiceInScope(scope) ==
    /\ arg.n = 0
    /\ ctx = <<>>
    /\ InScope(scope)

\* with self.resolving(ref): the first time
First(ref) ==
    /\ pc = "ready"
    /\ arg.n = 0
    /\ ResolvingCall(ref)
    /\ arg' = [n |-> IF Len(ctx') > Len(ctx) THEN 1 ELSE 2, ref |-> ref,
               first |-> ret']
    /\ UNCHANGED pc

\* the body of the first call ends
Between(how) ==
    /\ pc = "ready"
    /\ arg.n = 1
    /\ LET f == Last(ctx)
           back == resolving_finally(<<base_uri, schema>>,
                                     <<f.old_base_uri, f.old_schema>>)
       IN /\ resolution_scope' = in_scope_finally(resolution_scope, f.old_scope)
          /\ base_uri' = back[1]
          /\ schema' = back[2]
    /\ ctx' = Front(ctx)
    /\ arg' = [arg EXCEPT !.n = 2]
    /\ UNCHANGED <<heap, store, cache, handlers, unique_name_registry,
                   unique_names_taken, fetches, pc, ret>>

\* with self.resolving(ref): the second time
Second ==
    /\ pc = "ready"
    /\ arg.n = 2
    /\ ResolvingCall(arg.ref)
    /\ arg' = [arg EXCEPT !.n = 3]
    /\ UNCHANGED pc

NextTwice ==
    \/ \E scope \in Scopes : TwiceInScope(scope)
    \/ \E ref \in Refs : First(ref)
    \/ \E how \in Hows : Between(how)
    \/ Second

SpecTwice == InitTwice /\ [][NextTwice]_vars

(***************************************************************************)
(* walk, call by call: ctx holds one frame per call of walk that is in its *)
(* loop over the items of its node, with the items still to visit and,     *)
(* when the call is inside `with self.in_scope(...)`, the old scope the    *)
(* context manager keeps.                                                  *)
(***************************************************************************)
U_up_sub == Uri("", "", <<"..", "sub", "">>, FALSE, FALSE, <<>>)

\* {"$id": "http://h/a/",
\*  "a": {"$id": "sub/",
\*        "b": {"$id": "f" or "../sub/", "r": {"$ref": "e"}},
\*        "c": {"$ref": "c"}},
\*  "d": {"$id": "sub/", "e": {"$ref": "b"}}}
\* with each $id there or not.
StepTree(c) ==
    <<DictNode(0, <<>>),
      Opt(c.rootid, UriNode(1, KeyId, U_a_dir)),
      DictNode(1, <<"a">>),
      Opt(c.aid, UriNode(3, KeyId, U_sub_dir)),
      DictNode(3, <<"b">>),
      Opt(c.bid # EmptyUri, UriNode(5, KeyId, c.bid)),
      DictNode(5, <<"r">>),
      UriNode(7, KeyRef, U_e_rel),
      DictNode(3, <<"c">>),
      UriNode(9, KeyRef, U_c_rel),
      DictNode(1, <<"d">>),
      Opt(c.did, UriNode(11, KeyId, U_sub_dir)),
      DictNode(11, <<"e">>),
      UriNode(13, KeyRef, U_b_rel)>>

StepTrees ==
    {StepTree(c) : c \in [rootid : BOOLEAN, aid : BOOLEAN,
                          bid : {EmptyUri, U_f_rel, U_up_sub},
                          did : BOOLEAN]}

InitSteps ==
    /\ heap \in StepTrees
    /\ arg = [tree |-> heap]
    /\ pc = "new"
    /\ ret = NoRet
    /\ base_uri = EmptyUri
    /\ schema = 1
    /\ resolution_scope = EmptyUri
    /\ store = <<>>
    /\ cache = TRUE
    /\ handlers = {}
    /\ unique_name_registry = <<>>
    /\ unique_names_taken = {}
    /\ ctx = <<>>
    /\ fetches = {}

\* A call of walk(node) in its loop.
WalkFrame(node, items, scoped, old_scope) ==
    [node |-> node, items |-> items, scoped |-> scoped, old_scope |-> old_scope]

\* The call of walk about to be made: that of the next item of the loop of
\* the innermost call.
NextItem == Head(ctx[Len(ctx)].items)

\* The innermost loop moves past its next item.
Advance == [ctx EXCEPT ![Len(ctx)].items = Tail(@)]

\* RefResolver(base, schema, store={}) up to self.walk(schema).
WalkBegin(base) ==
    /\ pc = "new"
    /\ pc' = "walk"
    /\ base_uri' = base
    /\ resolution_scope' = base
    /\ store' = <<>>
    /\ ctx' = <<WalkFrame(0, <<schema>>, FALSE, base)>>
    /\ ret' = [op |-> "begin"]
    /\ UNCHANGED <<heap, schema, cache, handlers, unique_name_registry,
                   unique_names_taken, fetches, arg>>

\* walk(node), node with a string $ref: the $ref is joined with the scope.
WalkRef ==
    /\ pc = "walk" /\ ctx[Len(ctx)].items # <<>>
    /\ HasKey(heap, NextItem, KeyRef)
    /\ heap[Member(heap, NextItem, KeyRef)].kind = "str"
    /\ \E r \in {Member(heap, NextItem, KeyRef)} :
          heap' = [heap EXCEPT ![r].uri = fixed_urljoin(resolution_scope, @)]
    /\ ctx' = Advance
    /\ ret' = [op |-> "ref", node |-> NextItem, against |-> resolution_scope]
    /\ UNCHANGED <<base_uri, schema, resolution_scope, store, cache, handlers,
                   unique_name_registry, unique_names_taken, fetches, pc, arg>>

\* walk(node), node with a string id and no $ref: the scope is entered, the
\* node is stored under it, and the loop over its items begins.
WalkId ==
    /\ pc = "walk" /\ ctx[Len(ctx)].items # <<>>
    /\ ~(HasKey(heap, NextItem, KeyRef)
            /\ heap[Member(heap, NextItem, KeyRef)].kind = "str")
    /\ HasKey(heap, NextItem, KeyId) \/ HasKey(heap, NextItem, KeyLegacyId)
    /\ get_id(heap, NextItem).str
    /\ resolution_scope' =
           in_scope_enter(resolution_scope, get_id(heap, NextItem).uri)
    /\ store' = StorePut(store, normalize(resolution_scope'), NextItem)
    /\ ctx' = Append(Advance,
                  WalkFrame(NextItem, walk_children(heap, NextItem), TRUE,
                            resolution_scope))
    /\ ret' = [op |-> "id", node |-> NextItem, against |-> resolution_scope]
    /\ UNCHANGED <<heap, base_uri, schema, cache, handlers,
                   unique_name_registry, unique_names_taken, fetches, pc, arg>>

\* walk(node), any other dict: the loop over its items begins.
WalkPlain ==
    /\ pc = "walk" /\ ctx[Len(ctx)].items # <<>>
    /\ heap[NextItem].kind = "dict"
    /\ ~(HasKey(heap, NextItem, KeyRef)
            /\ heap[Member(heap, NextItem, KeyRef)].kind = "str")
    /\ ~((HasKey(heap, NextItem, KeyId) \/ HasKey(heap, NextItem, KeyLegacyId))
            /\ get_id(heap, NextItem).str)
    /\ ctx' = Append(Advance,
                  WalkFrame(NextItem, walk_children(heap, NextItem), FALSE,
                            resolution_scope))
    /\ ret' = [op |-> "plain", node |-> NextItem]
    /\ UNCHANGED <<heap, base_uri, schema, resolution_scope, store, cache,
                   handlers, unique_name_registry, unique_names_taken,
                   fetches, pc, arg>>

\* The loop of a call of walk is over: the call returns, through the
\* `finally` of in_scope when it was inside one.
WalkReturn ==
    /\ pc = "walk" /\ Len(ctx) > 1 /\ ctx[Len(ctx)].items = <<>>
    /\ resolution_scope' =
           IF ctx[Len(ctx)].scoped
           THEN in_scope_finally(resolution_scope, ctx[Len(ctx)].old_scope)
           ELSE resolution_scope
    /\ ctx' = SubSeq(ctx, 1, Len(ctx) - 1)
    /\ ret' = [op |-> "return", node |-> ctx[Len(ctx)].node]
    /\ UNCHANGED <<heap, base_uri, schema, store, cache, handlers,
                   unique_name_registry, unique_names_taken, fetches, pc, arg>>

\* self.walk(schema) has returned: the rest of the constructor.
WalkEnd ==
    /\ pc = "walk" /\ Len(ctx) = 1 /\ ctx[1].items = <<>>
    /\ pc' = "ready"
    /\ ctx' = <<>>
    /\ unique_name_registry' = <<>>
    /\ unique_names_taken' = {}
    /\ ret' = [op |-> "init"]
    /\ UNCHANGED <<heap, base_uri, schema, resolution_scope, store, cache,
                   handlers, fetches, arg>>

NextSteps ==
    \/ \E base \in WalkBases : WalkBegin(base)
    \/ WalkRef
    \/ WalkId
    \/ WalkPlain
    \/ WalkReturn
    \/ WalkEnd

SpecSteps == InitSteps /\ [][NextSteps]_vars

(***************************************************************************)
(* Construction twice: a second resolver built over the tree the first one *)
(* has walked, with the same base URI.                                     *)
(***************************************************************************)
U_hash == Uri("", "", <<>>, FALSE, TRUE, <<>>)

U_up_x == Uri("", "", <<"..", "x">>, FALSE, FALSE, <<>>)

\* {"$id": id, "d": {}, "p": {"$ref": ref}}, the $id there or not.
AgainTree(id, ref) ==
    <<DictNode(0, <<>>),
      Opt(id # EmptyUri, UriNode(1, KeyId, id)),
      DictNode(1, <<"d">>),
      DictNode(1, <<"p">>),
      UriNode(4, KeyRef, ref)>>

AgainTrees ==
    {AgainTree(id, ref) : id \in {EmptyUri, U_a_hash, U_sub_dir},
                          ref \in {EmptyUri, U_hash, U_frag_d, U_b_rel, U_r}}

AgainBases == {U_a, U_a_hash, U_custom_a, U_up_x}

InitAgain ==
    /\ heap \in AgainTrees
    /\ arg = [tree |-> heap]
    /\ pc = "new"
    /\ ret = NoRet
    /\ base_uri = EmptyUri
    /\ schema = 1
    /\ resolution_scope = EmptyUri
    /\ store = <<>>
    /\ cache = TRUE
    /\ handlers = {}
    /\ unique_name_registry = <<>>
    /\ unique_names_taken = {}
    /\ ctx = <<>>
    /\ fetches = {}

\* RefResolver(base_uri, schema, store={}) again, over the walked tree.
ConstructAgain ==
    /\ pc = "ready"
    /\ \E r \in {init(heap, base_uri, schema, <<>>, cache, handlers)} : Becomes(r)
    /\ pc' = "again"
    /\ arg' = [tree |-> arg.tree, first |-> [heap |-> heap, store |-> store]]
    /\ ret' = [op |-> "init"]
    /\ UNCHANGED <<ctx, fetches>>

NextAgain ==
    \/ \E base \in AgainBases : Construct(base)
    \/ FromSchema
    \/ ConstructAgain

SpecAgain == InitAgain /\ [][NextAgain]_vars

(***************************************************************************)
(* The validator a schema compiles to.  A value is a record tagged null,   *)
(* bool (b), num (n), str (s, its characters), arr (elems, a sequence of   *)
(* values) or obj (props, a sequence of <<key, value>> pairs in insertion  *)
(* order, a key being its characters); the fields of the other kinds are   *)
(* left empty.  A schema is a record of the keywords it has.  A routine    *)
(* takes a value and the rendered path of the value, and gives the value   *)
(* with defaults filled in, or a validation error.                         *)
(***************************************************************************)
Null == [t |-> "null", b |-> FALSE, n |-> 0, s |-> <<>>, elems |-> <<>>, props |-> <<>>]

Bool(b) == [Null EXCEPT !.t = "bool", !.b = b]

Num(n) == [Null EXCEPT !.t = "num", !.n = n]

Str(chars) == [Null EXCEPT !.t = "str", !.s = chars]

Arr(items) == [Null EXCEPT !.t = "arr", !.elems = items]

Obj(pairs) == [Null EXCEPT !.t = "obj", !.props = pairs]

\* The keys of an object, in insertion order.
Keys(obj) == [i \in 1..Len(obj.props) |-> obj.props[i][1]]

HasProp(obj, key) == \E i \in 1..Len(obj.props) : obj.props[i][1] = key

Prop(obj, key) == obj.props[CHOOSE i \in 1..Len(obj.props) : obj.props[i][1] = key][2]

SetProp_present(obj, key, value) ==
    Obj([i \in 1..Len(obj.props) |->
            IF obj.props[i][1] = key THEN <<key, value>> ELSE obj.props[i]])

\* data[key] = value
SetProp(obj, key, value) ==
    IF HasProp(obj, key)
    THEN Obj([i \in 1..Len(obj.props) |->
                 IF obj.props[i][1] = key THEN <<key, value>> ELSE obj.props[i]])
    ELSE Obj(Append(obj.props, <<key, value>>))

\* The outcome of a routine.
Valid(value) == [kind |-> "ok", value |-> value]

\* A validation error: the rule, the rendered path, the keys it names (for
\* the errors that batch keys), the schema violated and the offending value.
Invalid(rule, path, names, definition, value) ==
    [kind |-> "error", rule |-> rule, path |-> path, names |-> names,
     definition |-> definition, value |-> value]

Has(s, keyword) == keyword \in DOMAIN s

\* The path of a member: `.key`, or `[index]` counted from 0.
PathKey(path, key) == path \o <<".">> \o key

PathIndex(path, i) == path \o <<"[">> \o DecChars(i) \o <<"]">>

DataPath == <<"d", "a", "t", "a">>

\* `type`: the kind of the value is the kind listed; a boolean is no number.
TypeOk(type, value) ==
    CASE type = "null" -> value.t = "null"
      [] type = "boolean" -> value.t = "bool"
      [] type = "number" -> value.t = "num"
      [] type = "integer" -> value.t = "num"
      [] type = "string" -> value.t = "str"
      [] type = "array" -> value.t = "arr"
      [] type = "object" -> value.t = "obj"

RECURSIVE Deref(_, _)
\* The schema a `$ref` of the form #/a/b names in the root schema: the
\* members a, then b, of the root.
Deref(s, tokens) ==
    IF tokens = <<>> THEN s ELSE Deref(s[Head(tokens)], Tail(tokens))

Missing_first(s, value) ==
    IF \A i \in 1..Len(s.required) : HasProp(value, s.required[i])
    THEN <<>>
    ELSE <<s.required[CHOOSE i \in 1..Len(s.required) :
               /\ ~HasProp(value, s.required[i])
               /\ \A j \in 1..(i - 1) : HasProp(value, s.required[j])]>>

\* The keys `required` lists that the object lacks, in the order listed.
Missing(s, value) ==
    SelectSeq(s.required, LAMBDA k : ~HasProp(value, k))

\* The key is declared in `properties`.
Declared(s, key) ==
    Has(s, "properties")
    /\ \E i \in 1..Len(s.properties) : s.properties[i][1] = key

Patterned_full(s, key) ==
    Has(s, "patternProperties")
    /\ \E i \in 1..Len(s.patternProperties) : s.patternProperties[i][1] = key

\* The key matches a pattern of `patternProperties`, by search.
Patterned(s, key) ==
    Has(s, "patternProperties")
    /\ \E i \in 1..Len(s.patternProperties) :
          IsSubstring(s.patternProperties[i][1], key)

\* The keys of the object that `additionalProperties` applies to.
Additional(s, value) ==
    SelectSeq(Keys(value), LAMBDA k : ~Declared(s, k) /\ ~Patterned(s, k))

\* `additionalItems` / `additionalProperties`: a boolean or a schema.
Flag(b) == [k |-> "bool", b |-> b]

Sub(s) == [k |-> "schema", s |-> s]

\* `items`: one schema for every element, or a list of schemas.
Each(s) == [k |-> "one", s |-> s]

Tuple(ss) == [k |-> "list", ss |-> ss]

\* The path a `$ref` hands to the routine it delegates to: the path of the
\* referring site.
ref_path_rooted(path) == DataPath

ref_path(path) == path

RECURSIVE validate(_, _, _, _)
RECURSIVE validate_each(_, _, _, _, _)
RECURSIVE validate_tuple(_, _, _, _, _)
RECURSIVE validate_properties(_, _, _, _, _)
RECURSIVE validate_pattern_properties(_, _, _, _, _, _)
RECURSIVE validate_additional(_, _, _, _, _, _)

\* Elements i.. of the array against one schema, each at path[index]; the
\* first failing element's error is the outcome.
validate_each(root, item, value, path, i) ==
    IF i > Len(value.elems) THEN Valid(value)
    ELSE LET r == validate(root, item, value.elems[i], PathIndex(path, i - 1))
         IN  IF r.kind = "error" THEN r
             ELSE validate_each(root, item,
                      Arr([value.elems EXCEPT ![i] = r.value]), path, i + 1)

validate_additional_items_open(root, s, value, path) == Valid(value)

\* `additionalItems`, for the elements beyond the list of `items`.
validate_additional_items(root, s, value, path) ==
    IF ~Has(s, "additionalItems") THEN Valid(value)
    ELSE IF s.additionalItems.k = "bool"
    THEN IF s.additionalItems.b \/ Len(value.elems) <= Len(s.items.ss)
         THEN Valid(value)
         ELSE Invalid("items", path, <<>>, s, value)
    ELSE validate_each(root, s.additionalItems.s, value, path,
             Len(s.items.ss) + 1)

\* `items` as a list, from slot i on: a present element is validated against
\* its schema, a missing slot with a `default` is appended.
validate_tuple(root, s, value, path, i) ==
    IF i > Len(s.items.ss) THEN validate_additional_items(root, s, value, path)
    ELSE IF i <= Len(value.elems)
    THEN LET r == validate(root, s.items.ss[i], value.elems[i],
                      PathIndex(path, i - 1))
         IN  IF r.kind = "error" THEN r
             ELSE validate_tuple(root, s,
                      Arr([value.elems EXCEPT ![i] = r.value]), path, i + 1)
    ELSE IF Has(s.items.ss[i], "default")
    THEN validate_tuple(root, s,
             Arr(Append(value.elems, s.items.ss[i].default)), path, i + 1)
    ELSE validate_tuple(root, s, value, path, i + 1)

validate_array(root, s, value, path) ==
    IF ~Has(s, "items") THEN Valid(value)
    ELSE IF s.items.k = "one"
    THEN validate_each(root, s.items.s, value, path, 1)
    ELSE validate_tuple(root, s, value, path, 1)

\* `additionalProperties` as a schema: the additional keys from the k-th on,
\* each against the schema.
validate_additional(root, s, value, path, keys, k) ==
    IF k > Len(keys) THEN Valid(value)
    ELSE LET r == validate(root, s.additionalProperties.s,
                      Prop(value, keys[k]), PathKey(path, keys[k]))
         IN  IF r.kind = "error" THEN r
             ELSE validate_additional(root, s,
                      SetProp(value, keys[k], r.value), path, keys, k + 1)

validate_additional_properties(root, s, value, path) ==
    IF ~Has(s, "additionalProperties") THEN Valid(value)
    ELSE IF s.additionalProperties.k = "bool"
    THEN IF s.additionalProperties.b \/ Additional(s, value) = <<>>
         THEN Valid(value)
         ELSE Invalid("required-additionalProperties", path,
                  Additional(s, value), s, value)
    ELSE validate_additional(root, s, value, path, Additional(s, value), 1)

\* `patternProperties`: the k-th key of the object against the j-th pattern
\* and on; a key a pattern is found in is validated against its schema.
validate_pattern_properties(root, s, value, path, k, j) ==
    IF ~Has(s, "patternProperties") \/ k > Len(value.props)
    THEN validate_additional_properties(root, s, value, path)
    ELSE IF j > Len(s.patternProperties)
    THEN validate_pattern_properties(root, s, value, path, k + 1, 1)
    ELSE IF ~IsSubstring(s.patternProperties[j][1], value.props[k][1])
    THEN validate_pattern_properties(root, s, value, path, k, j + 1)
    ELSE LET r == validate(root, s.patternProperties[j][2], value.props[k][2],
                      PathKey(path, value.props[k][1]))
         IN  IF r.kind = "error" THEN r
             ELSE validate_pattern_properties(root, s,
                      SetProp(value, value.props[k][1], r.value), path, k, j + 1)

\* `properties`, from the i-th declared key on: a present key is validated
\* against its schema at path.key, an absent one with a `default` is set.
validate_properties(root, s, value, path, i) ==
    IF ~Has(s, "properties") \/ i > Len(s.properties)
    THEN validate_pattern_properties(root, s, value, path, 1, 1)
    ELSE IF HasProp(value, s.properties[i][1])
    THEN LET r == validate(root, s.properties[i][2],
                      Prop(value, s.properties[i][1]),
                      PathKey(path, s.properties[i][1]))
         IN  IF r.kind = "error" THEN r
             ELSE validate_properties(root, s,
                      SetProp(value, s.properties[i][1], r.value), path, i + 1)
    ELSE IF Has(s.properties[i][2], "default")
    THEN validate_properties(root, s,
             SetProp(value, s.properties[i][1], s.properties[i][2].default),
             path, i + 1)
    ELSE validate_properties(root, s, value, path, i + 1)

\* `required`, then the keywords on the members.
validate_object(root, s, value, path) ==
    IF Has(s, "required") /\ Missing(s, value) # <<>>
    THEN Invalid("required-additionalProperties", path, Missing(s, value),
             s, value)
    ELSE validate_properties(root, s, value, path, 1)

\* The routine of a schema: a `$ref` delegates to the routine of the schema
\* it names, with the same value and path; otherwise `type`, then the
\* keywords of the kind of the value.
validate(root, s, value, path) ==
    IF Has(s, "ref")
    THEN validate(root, Deref(root, s.ref), value, ref_path(path))
    ELSE IF Has(s, "type") /\ ~TypeOk(s.type, value)
    THEN Invalid("type", path, <<>>, s, value)
    ELSE IF value.t = "arr" THEN validate_array(root, s, value, path)
    ELSE IF value.t = "obj" THEN validate_object(root, s, value, path)
    ELSE Valid(value)

(***************************************************************************)
(* Validation: the schemas of the tests, each with the values it is given. *)
(***************************************************************************)
MaxItems == 3

MaxProps == 2

\* The arrays of at most MaxItems of the values.
ArrValues(vals) == {Arr(items) : items \in UNION {[1..n -> vals] : n \in 0..MaxItems}}

\* The objects of at most MaxProps distinct keys, in every insertion order.
ObjValues(keys, vals) ==
    {Obj(pairs) : pairs \in UNION {
        {f \in [1..n -> keys \X vals] :
            \A i, j \in 1..n : f[i][1] = f[j][1] => i = j} : n \in 0..MaxProps}}

Scalars == {Null, Num(1)}

T(type) == [type |-> type]

S_required == [type |-> "object", required |-> <<<<"a">>, <<"b">>>>]

S_properties ==
    [type |-> "object",
     properties |-> << <<<<"a">>, T("number")>>, <<<<"b">>, T("string")>>,
                       <<<<"c", "_", "d">>, T("boolean")>> >>,
     additionalProperties |-> Flag(FALSE)]

S_pattern ==
    [type |-> "object",
     patternProperties |-> << <<<<"a">>, T("number")>>,
                              <<<<"b">>, T("string")>> >>,
     additionalProperties |-> Flag(FALSE)]

S_required_closed ==
    [type |-> "object", required |-> <<<<"a">>>>,
     properties |-> << <<<<"a">>, T("number")>> >>,
     patternProperties |-> << <<<<"b">>, T("string")>> >>,
     additionalProperties |-> Flag(FALSE)]

S_open ==
    [type |-> "object",
     properties |-> << <<<<"a">>, T("number")>> >>,
     additionalProperties |-> Sub(T("string"))]

S_ref ==
    [type |-> "object",
     definitions |-> [SomeType |->
         [type |-> "object",
          properties |-> << <<<<"s", "t", "r">>, T("string")>> >>]],
     properties |-> << <<<<"p", "r", "o", "p", "1">>,
                         [ref |-> <<"definitions", "SomeType">>]>> >>]

S_items == [type |-> "array", items |-> Tuple(<<T("number"), T("string")>>)]

S_items_schema == S_items @@ [additionalItems |-> Sub(T("string"))]

S_items_true == S_items @@ [additionalItems |-> Flag(TRUE)]

S_items_false == S_items @@ [additionalItems |-> Flag(FALSE)]

S_default_object ==
    [type |-> "object",
     properties |-> <<
         <<<<"a">>, [type |-> "string", default |-> Str(<<>>)]>>,
         <<<<"b">>, [type |-> "number", default |-> Num(42)]>>,
         <<<<"c">>, [type |-> "object", default |-> Obj(<<>>)]>>,
         <<<<"d">>, [type |-> "array", default |-> Arr(<<>>)]>> >>]

S_default_array ==
    [type |-> "array",
     items |-> Tuple(<<[type |-> "string", default |-> Str(<<>>)],
                       [type |-> "number", default |-> Num(42)]>>)]

TupleValues == ArrValues({Num(1), Num(2), Str(<<"a">>), Str(<<"b">>)})

\* A schema with the values it is applied to.
Case(s, values) == [schema |-> s, values |-> values \cup Scalars]

Cases ==
    << Case(S_required, ObjValues({<<"a">>, <<"b">>, <<"c">>}, {Num(1)})),
       Case(S_properties,
            ObjValues({<<"a">>, <<"b">>, <<"c", "_", "d">>, <<"c", "d">>,
                       <<"a", "n", "y">>},
                      {Num(1), Num(2), Str(<<>>), Bool(TRUE)})),
       Case(S_pattern,
            ObjValues({<<"x", "a">>, <<"x", "b", "x">>, <<"a", "b">>,
                       <<"c">>}, {Num(1), Str(<<>>)})),
       Case(S_required_closed,
            ObjValues({<<"a">>, <<"x", "b">>, <<"c">>},
                      {Num(1), Str(<<>>)})),
       Case(S_open,
            ObjValues({<<"a">>, <<"c">>, <<"d">>}, {Num(1), Str(<<>>)})),
       Case(S_ref,
            ObjValues({<<"p", "r", "o", "p", "1">>, <<"s", "t", "r">>},
                      {Num(1), Obj(<<>>),
                       Obj(<< <<<<"s", "t", "r">>, Num(1)>> >>),
                       Obj(<< <<<<"s", "t", "r">>, Str(<<>>)>> >>)})),
       Case(S_items, TupleValues),
       Case(S_items_schema, TupleValues),
       Case(S_items_true, TupleValues),
       Case(S_items_false, TupleValues),
       Case(S_default_object,
            ObjValues({<<"a">>, <<"b">>, <<"c">>, <<"d">>, <<"e">>},
                      {Str(<<"a", "b", "c">>), Num(1), Obj(<<>>),
                       Arr(<<>>)})),
       Case(S_default_array,
            ArrValues({Str(<<"a", "b", "c">>), Num(123)})) >>

InitValidate ==
    /\ \E c \in 1..Len(Cases) : \E value \in Cases[c].values :
          arg = [schema |-> Cases[c].schema, value |-> value]
    /\ pc = "new"
    /\ ret = NoRet
    /\ heap = <<>>
    /\ base_uri = EmptyUri
    /\ schema = 1
    /\ resolution_scope = EmptyUri
    /\ store = <<>>
    /\ cache = TRUE
    /\ handlers = {}
    /\ unique_name_registry = <<>>
    /\ unique_names_taken = {}
    /\ ctx = <<>>
    /\ fetches = {}

\* The validator of the schema applied to the value, at the path `data`.
Validate ==
    /\ pc = "new"
    /\ pc' = "done"
    /\ ret' = validate(arg.schema, arg.schema, arg.value, DataPath)
                  @@ [op |-> "validate"]
    /\ UNCHANGED <<heap, base_uri, schema, resolution_scope, store, cache,
                   handlers, unique_name_registry, unique_names_taken, ctx,
                   fetches, arg>>

NextValidate == Validate

SpecValidate == InitValidate /\ [][NextValidate]_vars

(***************************************************************************)
(* Properties of resolving                                                 *)
(***************************************************************************)
Current == Scoped(base_uri, schema, resolution_scope)

NonCacheable(u) == u.scheme = NoCacheScheme

\* C1: whenever a context manager exits (the body returned or raised), and
\* whenever a resolving call fails before its body (the fetch or the fragment
\* resolution raised), base_uri, the root schema and resolution_scope have the
\* values they had immediately before that context was entered, however the
\* contexts are nested.
C1_Restored ==
    [][/\ Len(ctx') < Len(ctx) =>
            Scoped(base_uri', schema', resolution_scope') = Last(ctx).entry
       /\ (Len(ctx') = Len(ctx) /\ ret'.op = "resolving") =>
            Scoped(base_uri', schema', resolution_scope') = Current]_vars

\* A resolving context nested in another context has been left by a raising
\* body, the outer resolving context being one that moved base_uri.
C1_Witness ==
    /\ ret.op = "exit"
    /\ ret.of = "resolving"
    /\ ret.how = "raise"
    /\ Len(ctx) = 1
    /\ ctx[1].kind = "resolving"
    /\ ctx[1].old_base_uri # base_uri

\* C2: resolving(ref) takes the store entry for the normalized, fragment-less
\* joined URI if there is one; otherwise the current root schema if the
\* fragment-less joined URI is empty or equals the current base_uri; otherwise
\* the document the fetch yields.  The fetch runs in the third case only.
C2_Order ==
    ret.op = "resolving" =>
        /\ ret.source = IF ret.in_store THEN "store"
                        ELSE IF ret.own THEN "root" ELSE "remote"
        /\ ret.fetched <=> (ret.source = "remote")
        /\ ret.source = "store" => ret.doc = store[ret.normalized_uri]
        /\ ret.source = "root" => ret.doc = ret.root

\* A reference that is both in the store and the resolver's own base_uri was
\* served from the store.
C2_Witness ==
    /\ ret.op = "resolving"
    /\ ret.in_store
    /\ ret.own
    /\ ret.source = "store"
    /\ ret.kind = "ok"

\* C3: with caching enabled, once a fetch of a URI whose scheme is not the
\* non-cacheable marker has succeeded, the store maps the normalized URI to
\* the fetched document, keeps mapping it to that document, and every later
\* resolving of that URI, with any fragment, is served from the store without
\* another fetch.
C3_CachedOnce ==
    [][cache =>
        /\ \A u \in fetches' : ~NonCacheable(u) => u \in DOMAIN store'
        /\ \A u \in fetches : ~NonCacheable(u) => store'[u] = store[u]
        /\ (ret'.op = "resolving" /\ ~NonCacheable(ret'.normalized_uri)) =>
              /\ ret'.known => ~ret'.fetched /\ ret'.source = "store"
              /\ (ret'.fetched /\ ret'.doc # 0) =>
                    store'[ret'.normalized_uri] = ret'.doc]_vars

\* A URI fetched before is resolved again, with a fragment, from the store.
C3_Witness ==
    /\ cache
    /\ ret.op = "resolving"
    /\ ret.known
    /\ ~NonCacheable(ret.normalized_uri)
    /\ ret.source = "store"
    /\ ret.fragment # <<>>
    /\ ret.kind = "ok"

\* C4, as claimed: every resolving of a URI whose scheme is the non-cacheable
\* marker, and with the cache flag disabled every resolving of a URI that was
\* fetched, goes through the fetch handler.
C4_AlwaysFetched ==
    (/\ ret.op = "resolving"
     /\ NonCacheable(ret.normalized_uri) \/ (~cache /\ ret.known)) => ret.fetched

\* C4, amended: resolving never adds a store entry for a URI whose scheme is
\* the marker, nor any entry when the cache flag is disabled; and a resolving
\* of such a URI that finds no store entry for it, and whose URI is neither
\* empty nor the current base_uri, fetches it through the handler, each time.
C4_NeverStored ==
    [][/\ \A u \in DOMAIN store' \ DOMAIN store : cache /\ ~NonCacheable(u)
       /\ (/\ ret'.op = "resolving"
           /\ NonCacheable(ret'.normalized_uri) \/ ~cache
           /\ ~ret'.in_store
           /\ ~ret'.own) => ret'.fetched]_vars

\* A marker-scheme URI fetched before is fetched again.
C4_Witness ==
    /\ ret.op = "resolving"
    /\ NonCacheable(ret.normalized_uri)
    /\ ret.known
    /\ ret.fetched
    /\ ret.kind = "ok"

\* C10: a resolving whose remote fetch failed raises a definition error.
C10_FetchFailureIsDefinitionError ==
    (ret.op = "resolving" /\ ret.fetched /\ ret.doc = 0) =>
        ret.kind = "DefinitionError"

(***************************************************************************)
(* Properties of naming                                                    *)
(***************************************************************************)
\* C5: the scope-to-identifier mapping is append-only: no entry is ever
\* reassigned or removed, and get_scope_name called in a scope that has an
\* identifier returns that identifier, whatever was named or entered between.
C5_AppendOnly ==
    [][/\ \A s \in DOMAIN unique_name_registry :
            /\ s \in DOMAIN unique_name_registry'
            /\ unique_name_registry'[s] = unique_name_registry[s]
       /\ (ret'.op = "get_scope_name"
           /\ ret'.scope \in DOMAIN unique_name_registry) =>
              ret'.name = unique_name_registry[ret'.scope]]_vars

\* A scope named before is named again, after other scopes were named.
C5_Witness ==
    /\ ret.op = "get_scope_name"
    /\ ret.known
    /\ Cardinality(DOMAIN unique_name_registry) >= 3
    /\ ret.name # base_name(ret.scope)

\* C6: any two distinct scopes have distinct identifiers.
C6_Distinct ==
    \A s1, s2 \in DOMAIN unique_name_registry :
        s1 # s2 => unique_name_registry[s1] # unique_name_registry[s2]

\* Two scopes with the same base name are named, and so is a third whose base
\* name is the suffixed identifier of the second.
C6_Witness ==
    \E s1, s2, s3 \in DOMAIN unique_name_registry :
        /\ s1 # s2
        /\ base_name(s1) = base_name(s2)
        /\ unique_name_registry[s1] = base_name(s1)
        /\ base_name(s3) = unique_name_registry[s2]
        /\ unique_name_registry[s3] # base_name(s3)

(***************************************************************************)
(* Properties of pointers                                                  *)
(***************************************************************************)
RECURSIVE Addressed(_, _, _)
\* The node a list of pointer tokens addresses from node n, by RFC 6901: a
\* member of a map by its key, an element of a sequence by an index written
\* in digits; 0 when a token addresses nothing.
Addressed(h, n, tokens) ==
    IF tokens = <<>> THEN n
    ELSE LET t == Unescape(Head(tokens)) IN
         IF h[n].kind = "dict" /\ HasKey(h, n, t)
         THEN Addressed(h, Member(h, n, t), Tail(tokens))
         ELSE IF h[n].kind = "list" /\ AllDigits(t)
                 /\ DecVal(t, 0) < ListLen(h, n)
         THEN Addressed(h, Elem(h, n, DecVal(t, 0)), Tail(tokens))
         ELSE 0

\* C9: resolve_path returns the node the pointer addresses, or fails with a
\* definition error when a token names an absent key, an index that is out of
\* range, negative or not a number, or steps into a scalar.
C9_NodeOrDefinitionError ==
    pc = "done" =>
        LET n == Addressed(heap, arg.node, Parts(arg.fragment)) IN
        IF n = 0 THEN ret.kind = "DefinitionError"
        ELSE ret.kind = "ok" /\ ret.node = n

(***************************************************************************)
(* Properties of construction                                              *)
(***************************************************************************)
RECURSIVE InTree(_, _, _)
\* Node n lies in the tree under root.
InTree(h, n, root) ==
    \/ n = root
    \/ h[n].parent # 0 /\ InTree(h, h[n].parent, root)

\* Node n is a sub-schema that declares a string $id/id.
DeclaresId(h, n) ==
    /\ h[n].kind = "dict"
    /\ HasKey(h, n, KeyId) \/ HasKey(h, n, KeyLegacyId)
    /\ get_id(h, n).str

RECURSIVE ScopeAt(_, _, _)
\* The scope of node n: the base joined with the ids of its enclosing nodes,
\* outermost first, and then with its own.
ScopeAt(h, n, base) ==
    LET outer == IF h[n].parent = 0 THEN base
                 ELSE ScopeAt(h, h[n].parent, base)
    IN IF DeclaresId(h, n) THEN fixed_urljoin(outer, get_id(h, n).uri)
       ELSE outer

\* The scope in force on arrival at node n: that of its enclosing nodes.
ScopeAround(h, n, base) ==
    IF h[n].parent = 0 THEN base ELSE ScopeAt(h, h[n].parent, base)

\* C7: after walk, every $ref string in the tree, at any depth, in arrays and
\* below other $ref-bearing nodes too, is the join of what it was with the
\* scope in force at its node.
C7_EveryRefRewritten ==
    pc = "ready" =>
        \A r \in DOMAIN heap :
            (/\ arg.tree[r].kind = "str"
             /\ arg.tree[r].key = KeyRef
             /\ InTree(arg.tree, r, schema)) =>
                heap[r].uri =
                    fixed_urljoin(ScopeAround(arg.tree, arg.tree[r].parent,
                                              base_uri),
                                  arg.tree[r].uri)

\* C8: after walk, every sub-schema of the tree that declares a string id is
\* in the store under the normalized join of its id with the scope of its
\* enclosing nodes.
C8_EveryIdStored ==
    pc = "ready" =>
        \A n \in DOMAIN heap :
            (InTree(arg.tree, n, schema) /\ DeclaresId(arg.tree, n)) =>
                LET u == normalize(ScopeAt(arg.tree, n, base_uri))
                IN u \in DOMAIN store /\ store[u] = n

(***************************************************************************)
(* Properties of instances                                                 *)
(***************************************************************************)
\* C11: a resolver constructed without a store argument has a store of its
\* own: constructing another resolver, and resolving with it, leaves the
\* entries of the first resolver's store as they were.
C11_OwnStore ==
    [][(arg.first.made /\ ~arg.first.supplied) => FirstStore' = FirstStore]_vars

(***************************************************************************)
(* Properties of concurrent resolving                                      *)
(***************************************************************************)
\* C12: the first writer wins: once a document is stored under a normalized
\* URI, no write of another thread replaces that entry, however the lookups,
\* fetches and writes of the threads interleave.
C12_FirstWriterWins ==
    [][\A u \in DOMAIN store :
          u \in DOMAIN store' /\ store'[u] = store[u]]_vars

(***************************************************************************)
(* Properties of repetition                                                *)
(***************************************************************************)
RECURSIVE Identical(_, _, _)
\* Nodes a and b are structurally identical: the same kind and value, and
\* identical members under the same keys and indexes.
Identical(h, a, b) ==
    /\ h[a].kind = h[b].kind
    /\ h[a].uri = h[b].uri
    /\ h[a].text = h[b].text
    /\ \A m \in Members(h, a) : \E k \in Members(h, b) :
          h[m].key = h[k].key /\ h[m].idx = h[k].idx /\ Identical(h, m, k)
    /\ \A k \in Members(h, b) : \E m \in Members(h, a) :
          h[m].key = h[k].key /\ h[m].idx = h[k].idx

\* C13, as claimed: a reference resolved twice from the same scope yields
\* structurally identical nodes, whatever serves it: the store, the root
\* document, a cached or a non-cached remote document.
C13_SameTwice ==
    (arg.n = 3 /\ arg.first.kind = "ok" /\ ret.kind = "ok") =>
        Identical(heap, arg.first.node, ret.node)

\* C13, amended: the second call yields a node structurally identical to the
\* first whenever it is served from the store or from the root document,
\* and it is so served whenever the cache flag is set and the scheme is not
\* the non-cacheable marker.
C13_SameUnlessFetchedAgain ==
    (arg.n = 3 /\ arg.first.kind = "ok") =>
        /\ ret.source # "remote" =>
              ret.kind = "ok" /\ Identical(heap, arg.first.node, ret.node)
        /\ (cache /\ ~NonCacheable(ret.normalized_uri)) =>
              ret.source # "remote"

\* A remote document fetched by the first call is served from the store to
\* the second, at a fragment.
C13_Witness ==
    /\ arg.n = 3
    /\ arg.first.fetched
    /\ arg.first.kind = "ok"
    /\ ret.source = "store"
    /\ ret.fragment # <<>>
    /\ ret.node = arg.first.node

(***************************************************************************)
(* Properties of the validator.                                            *)
(***************************************************************************)
K_prop1 == <<"p", "r", "o", "p", "1">>

K_str == <<"s", "t", "r">>

\* The value under prop1 is an object whose str is not a string.
BadLeaf(value) ==
    /\ value.t = "obj" /\ HasProp(value, K_prop1)
    /\ Prop(value, K_prop1).t = "obj" /\ HasProp(Prop(value, K_prop1), K_str)
    /\ Prop(Prop(value, K_prop1), K_str).t # "str"

\* C14: a failing leaf reached through the `$ref` of prop1 gives one error
\* of rule type whose path is data.prop1.str, whose definition is the
\* sub-schema of the leaf and whose value is the leaf.
C14_PathThroughRef ==
    (pc = "done" /\ arg.schema = S_ref /\ BadLeaf(arg.value)) =>
        /\ ret.kind = "error" /\ ret.rule = "type"
        /\ ret.path = PathKey(PathKey(DataPath, K_prop1), K_str)
        /\ ret.definition = S_ref.definitions.SomeType.properties[1][2]
        /\ ret.value = Prop(Prop(arg.value, K_prop1), K_str)

C14_Witness ==
    /\ pc = "done" /\ arg.schema = S_ref /\ BadLeaf(arg.value)
    /\ ret.kind = "error"
    /\ ret.path = <<"d", "a", "t", "a", ".", "p", "r", "o", "p", "1",
                    ".", "s", "t", "r">>

Least(S) == CHOOSE i \in S : \A j \in S : i <= j

\* The slots of the list of `items` whose element is not of the slot's type.
LeadingBad(s, a) ==
    {i \in 1..Len(s.items.ss) :
        i <= Len(a.elems) /\ ~TypeOk(s.items.ss[i].type, a.elems[i])}

\* The elements beyond the list that are not of the type of `additionalItems`.
ExtraBad(s, a) ==
    {i \in (Len(s.items.ss) + 1)..Len(a.elems) :
        ~TypeOk(s.additionalItems.s.type, a.elems[i])}

ErrorAt(rule, path, definition) ==
    /\ ret.kind = "error" /\ ret.rule = rule /\ ret.path = path
    /\ ret.definition = definition

\* C15: with `items` a list, element i below the length of the list is
\* validated against items[i] at data[i]; the elements beyond are accepted
\* when `additionalItems` is absent or true, validated against it when it is
\* a schema, and when it is false a longer array with valid leading elements
\* is rejected by one error of rule items at data.
C15_TupleItems ==
    (/\ pc = "done" /\ arg.value.t = "arr"
     /\ Has(arg.schema, "items") /\ arg.schema.items.k = "list") =>
        LET s == arg.schema
            a == arg.value
        IN  IF LeadingBad(s, a) # {}
            THEN ErrorAt("type", PathIndex(DataPath, Least(LeadingBad(s, a)) - 1),
                     s.items.ss[Least(LeadingBad(s, a))])
            ELSE IF ~Has(s, "additionalItems")
            THEN ret.kind = "ok"
            ELSE IF s.additionalItems.k = "schema"
            THEN IF ExtraBad(s, a) # {}
                 THEN ErrorAt("type",
                          PathIndex(DataPath, Least(ExtraBad(s, a)) - 1),
                          s.additionalItems.s)
                 ELSE ret.kind = "ok"
            ELSE IF s.additionalItems.b
            THEN ret.kind = "ok"
            ELSE IF Len(a.elems) > Len(s.items.ss)
            THEN ErrorAt("items", DataPath, s)
            ELSE ret.kind = "ok"

C15_Witness ==
    /\ pc = "done" /\ arg.schema = S_items_false
    /\ arg.value.t = "arr" /\ Len(arg.value.elems) = 3
    /\ LeadingBad(arg.schema, arg.value) = {}
    /\ ErrorAt("items", DataPath, S_items_false)

Range(seq) == {seq[i] : i \in 1..Len(seq)}

\* The keys an error names, each named once.
Names(keys) == Range(ret.names) = keys /\ Len(ret.names) = Cardinality(keys)

\* The required keys the object does not have.
Lacking(s, value) == {k \in Range(s.required) : ~HasProp(value, k)}

\* C16: an object that lacks required keys is rejected by one error of rule
\* required-additionalProperties at data that names exactly the keys it
\* lacks; an object that has every required key is not rejected for a
\* required key, and is accepted when `required` is the only keyword on its
\* members.
C16_RequiredBatch ==
    (pc = "done" /\ arg.value.t = "obj" /\ Has(arg.schema, "required")) =>
        IF Lacking(arg.schema, arg.value) # {}
        THEN /\ ErrorAt("required-additionalProperties", DataPath, arg.schema)
             /\ Names(Lacking(arg.schema, arg.value))
        ELSE /\ ret.kind = "error" =>
                   Range(ret.names) \cap Range(arg.schema.required) = {}
             /\ arg.schema = S_required => ret.kind = "ok"

C16_Witness ==
    /\ pc = "done" /\ arg.schema = S_required /\ arg.value = Obj(<<>>)
    /\ ret.kind = "error" /\ ret.names = <<<<"a">>, <<"b">>>>

\* The pattern occurs somewhere in the key.
Found(pattern, key) ==
    \E o \in 0..(Len(key) - Len(pattern)) :
        SubSeq(key, o + 1, o + Len(pattern)) = pattern

\* The sub-schemas that cover a key: the one `properties` declares for it
\* and the ones of the patterns found in it.
Covering(s, key) ==
    (IF Has(s, "properties")
     THEN {p[2] : p \in {q \in Range(s.properties) : q[1] = key}} ELSE {})
    \cup
    (IF Has(s, "patternProperties")
     THEN {p[2] : p \in {q \in Range(s.patternProperties) : Found(q[1], key)}}
     ELSE {})

\* The keys of the object that nothing covers.
Uncovered(s, value) ==
    {k \in Range(Keys(value)) : Covering(s, k) = {}}

\* The keys of the object whose value is not of the type of a sub-schema
\* that covers it, with that sub-schema.
Failing(s, value) ==
    {f \in UNION {{<<k, c>> : c \in Covering(s, k)} : k \in Range(Keys(value))} :
        ~TypeOk(f[2].type, Prop(value, f[1]))}

Closed(s) ==
    /\ Has(s, "additionalProperties") /\ s.additionalProperties.k = "bool"
    /\ ~s.additionalProperties.b

\* C17: with additionalProperties false, an object with a key that is
\* neither declared in `properties` nor has a pattern of `patternProperties`
\* found in it is never accepted; when nothing else is wrong with the object
\* it is rejected by one error of rule required-additionalProperties at data
\* naming exactly those keys; a covered key is never among the keys named,
\* and a covered key whose value fails its sub-schema is rejected there.
C17_AdditionalFalse ==
    (pc = "done" /\ arg.value.t = "obj" /\ Closed(arg.schema)) =>
        LET s == arg.schema
            value == arg.value
            complete == Has(s, "required") => Lacking(s, value) = {}
        IN  /\ Uncovered(s, value) # {} => ret.kind = "error"
            /\ ret.kind = "error" =>
                  Range(ret.names) \cap (Range(Keys(value)) \ Uncovered(s, value)) = {}
            /\ (complete /\ Failing(s, value) # {}) =>
                  \E f \in Failing(s, value) :
                      ErrorAt("type", PathKey(DataPath, f[1]), f[2])
            /\ (complete /\ Failing(s, value) = {}) =>
                  IF Uncovered(s, value) # {}
                  THEN /\ ErrorAt("required-additionalProperties", DataPath, s)
                       /\ Names(Uncovered(s, value))
                  ELSE ret.kind = "ok"

C17_Witness ==
    /\ pc = "done" /\ arg.schema = S_pattern /\ arg.value.t = "obj"
    /\ Keys(arg.value) = <<<<"x", "b", "x">>, <<"c">>>>
    /\ ret.kind = "error" /\ ret.names = <<<<"c">>>>

\* The keys `properties` declares with a `default` that the object lacks.
Defaulted(s, value) ==
    {p \in Range(s.properties) :
        Has(p[2], "default") /\ ~HasProp(value, p[1])}

\* The defaults of the slots of the list of `items` beyond the array.
SlotDefaults(s, a) ==
    [i \in 1..(Len(s.items.ss) - Len(a.elems)) |->
        s.items.ss[Len(a.elems) + i].default]

\* C18: an accepted object comes back with its own members first, each with
\* its input value, followed by exactly the declared keys it lacked that
\* have a default, each set to that default; an accepted array comes back
\* as its own elements followed by the defaults of the missing slots; a
\* value that is not of the container type fails with rule type at data.
C18_DefaultsFilled ==
    pc = "done" =>
        /\ (arg.value.t = "obj" /\ Has(arg.schema, "properties")
                /\ ret.kind = "ok") =>
              /\ ret.value.t = "obj"
              /\ SubSeq(ret.value.props, 1, Len(arg.value.props))
                     = arg.value.props
              /\ Range(Keys(ret.value)) =
                     Range(Keys(arg.value))
                         \cup {p[1] : p \in Defaulted(arg.schema, arg.value)}
              /\ Len(ret.value.props) =
                     Len(arg.value.props)
                         + Cardinality(Defaulted(arg.schema, arg.value))
              /\ \A p \in Defaulted(arg.schema, arg.value) :
                     Prop(ret.value, p[1]) = p[2].default
        /\ (arg.value.t = "arr" /\ Has(arg.schema, "items")
                /\ arg.schema.items.k = "list" /\ ret.kind = "ok"
                /\ \A i \in (Len(arg.value.elems) + 1)..Len(arg.schema.items.ss) :
                       Has(arg.schema.items.ss[i], "default")) =>
              ret.value = Arr(arg.value.elems
                                  \o SlotDefaults(arg.schema, arg.value))
        /\ (arg.schema \in {S_default_object, S_default_array}
                /\ arg.value.t \notin {"obj", "arr"}) =>
              ErrorAt("type", DataPath, arg.schema)
        /\ (arg.schema = S_default_object /\ arg.value.t = "obj") =>
              (ret.kind = "ok" <=> Failing(arg.schema, arg.value) = {})

C18_Witness ==
    /\ pc = "done" /\ arg.schema = S_default_object
    /\ arg.value = Obj(<< <<<<"b">>, Num(1)>> >>)
    /\ ret.kind = "ok"
    /\ Keys(ret.value) = <<<<"b">>, <<"a">>, <<"c">>, <<"d">>>>
    /\ Prop(ret.value, <<"b">>) = Num(1)
    /\ Prop(ret.value, <<"a">>) = Str(<<>>)

(***************************************************************************)
(* Properties of walk, call by call                                        *)
(***************************************************************************)
\* The scope of the node whose items the innermost call of walk is visiting.
ScopeOfLoop ==
    IF ctx[Len(ctx)].node = 0 THEN base_uri
    ELSE ScopeAt(arg.tree, ctx[Len(ctx)].node, base_uri)

\* C19: at every step of walk the current scope is the base URI joined, left
\* to right, with the ids of the id-bearing nodes that enclose the items
\* being visited; every $ref and every $id walk joins is joined against that
\* scope, a sibling visited after a nested $id sub-tree included.
C19_JoinsAgainstCurrentScope ==
    pc = "walk" =>
        /\ resolution_scope = ScopeOfLoop
        /\ ret.op \in {"ref", "id"} =>
              ret.against = ScopeAround(arg.tree, ret.node, base_uri)
        /\ ret.op = "ref" =>
              heap[Member(heap, ret.node, KeyRef)].uri =
                  fixed_urljoin(ScopeAround(arg.tree, ret.node, base_uri),
                      arg.tree[Member(heap, ret.node, KeyRef)].uri)
        /\ ret.op = "id" =>
              resolution_scope =
                  fixed_urljoin(ScopeAround(arg.tree, ret.node, base_uri),
                      get_id(arg.tree, ret.node).uri)

\* The $ref of c, the sibling of b, is joined after the sub-tree of b, which
\* has an id of its own, against the scope of a.
C19_Witness ==
    /\ pc = "walk" /\ ret.op = "ref" /\ ret.node = 9
    /\ DeclaresId(arg.tree, 3) /\ DeclaresId(arg.tree, 5)
    /\ ret.against = ScopeAt(arg.tree, 3, base_uri)
    /\ ret.against # ScopeAt(arg.tree, 5, base_uri)
    /\ ret.against # base_uri

\* C20: an entry of the store is never replaced by another schema and never
\* removed, also when two nodes of the walked tree declare ids that join to
\* the same normalized URI.
C20_NeverReplaced ==
    [][\A u \in DOMAIN store' \cup DOMAIN store :
          u \in DOMAIN store => (u \in DOMAIN store' /\ store[u] = store'[u])]_vars

(***************************************************************************)
(* Properties of construction twice                                        *)
(***************************************************************************)
\* C21: walk over a tree that a walk has already normalized, in a fresh
\* resolver with the same base URI, leaves every $ref as it was and stores
\* the same nodes under the same URIs.
C21_SecondWalkChangesNothing ==
    pc = "again" => heap = arg.first.heap /\ store = arg.first.store

(***************************************************************************)
(* Properties of the identifiers                                           *)
(***************************************************************************)
Alnum == LowerLetters \cup UpperLetters \cup Digits

\* The text an identifier is derived from: the prefix and the decoded scope.
NameText(scope) ==
    <<"v", "a", "l", "i", "d", "a", "t", "e", "_">> \o Unquote(UriText(scope))

\* b is the text with each character that is not a letter or digit made one
\* separator, the letters lower-cased, and the trailing separators dropped.
SanitizedFrom(b, text) ==
    /\ Len(b) <= Len(text)
    /\ \A i \in 1..Len(b) :
          b[i] = IF text[i] \in Alnum THEN Lower(text[i]) ELSE "_"
    /\ b = <<>> \/ b[Len(b)] # "_"
    /\ \A i \in (Len(b) + 1)..Len(text) : text[i] \notin Alnum

\* b is such a text with no two separators in a row.
CollapsedFrom(b, text) ==
    /\ \A i \in 1..Len(b) : b[i] \in LowerLetters \cup Digits \cup {"_"}
    /\ b = <<>> \/ b[Len(b)] # "_"
    /\ \A i \in 1..(Len(b) - 1) : ~(b[i] = "_" /\ b[i + 1] = "_")
    /\ SelectSeq(b, LAMBDA c : c # "_")
           = SelectSeq([i \in 1..Len(text) |-> Lower(text[i])],
                       LAMBDA c : c \in Alnum)

Suffixed(b, k) == b \o <<"_">> \o DecChars(k)

\* The name is b when b is free, and otherwise b_k for the least k >= 0 with
\* b_k free.
FirstFree(name, b, taken) ==
    IF b \notin taken THEN name = b
    ELSE \E k \in 0..Cardinality(taken) :
            /\ name = Suffixed(b, k) /\ name \notin taken
            /\ \A j \in 0..(k - 1) : Suffixed(b, j) \in taken

\* C22 as stated: the base of an allocated identifier is the scope's text
\* with every run of non-alphanumeric characters collapsed to one separator,
\* lower-cased, without trailing separator; the identifier is the base, or
\* base_k for the least k >= 0 not taken.
C22_CollapsedBase ==
    [][(ret'.op = "get_scope_name" /\ ~ret'.known
            /\ unique_name_registry' # unique_name_registry) =>
          \E n \in 0..Len(ret'.name) :
              /\ CollapsedFrom(SubSeq(ret'.name, 1, n), NameText(ret'.scope))
              /\ FirstFree(ret'.name, SubSeq(ret'.name, 1, n),
                     unique_names_taken)]_vars

\* C22, amended: the base has one separator for each non-alphanumeric
\* character of the scope's text, runs not collapsed, is lower-cased and has
\* no trailing separator; the identifier is the base, or base_k for the
\* least k >= 0 not taken.
C22_SeparatorPerCharacter ==
    [][(ret'.op = "get_scope_name" /\ ~ret'.known
            /\ unique_name_registry' # unique_name_registry) =>
          \E n \in 0..Len(ret'.name) :
              /\ SanitizedFrom(SubSeq(ret'.name, 1, n), NameText(ret'.scope))
              /\ FirstFree(ret'.name, SubSeq(ret'.name, 1, n),
                     unique_names_taken)]_vars

\* A third scope with the base of two named ones is named base_1; the base
\* has the three separators of `://` in a row.
C22_Witness ==
    /\ ret.op = "get_scope_name" /\ ~ret.known
    /\ ret.name = Suffixed(base_name(ret.scope), 1)
    /\ \E i \in 1..(Len(ret.name) - 2) :
          ret.name[i] = "_" /\ ret.name[i + 1] = "_" /\ ret.name[i + 2] = "_"

(***************************************************************************)
(* Properties of the pointer tokens                                        *)
(***************************************************************************)
RECURSIVE Rfc6901(_)
\* The key a token stands for by RFC 6901, read once from left to right:
\* `~0` is `~`, `~1` is `/`, any other character is itself.
Rfc6901(token) ==
    IF token = <<>> THEN <<>>
    ELSE IF Len(token) >= 2 /\ token[1] = "~" /\ token[2] = "0"
    THEN <<"~">> \o Rfc6901(SubSeq(token, 3, Len(token)))
    ELSE IF Len(token) >= 2 /\ token[1] = "~" /\ token[2] = "1"
    THEN <<"/">> \o Rfc6901(SubSeq(token, 3, Len(token)))
    ELSE <<Head(token)>> \o Rfc6901(Tail(token))

\* C23: a pointer of one token, resolved in a map, gives the member whose
\* key is the token unescaped by RFC 6901, and a definition error when the
\* map has no such key; the token ~01 is the key ~1, never the key /.
C23_TokenUnescaped ==
    (/\ pc = "done" /\ heap[arg.node].kind = "dict"
     /\ Len(Parts(arg.fragment)) = 1) =>
        LET key == Rfc6901(Parts(arg.fragment)[1]) IN
        IF HasKey(heap, arg.node, key)
        THEN ret.kind = "ok" /\ ret.node = Member(heap, arg.node, key)
        ELSE ret.kind = "DefinitionError"

C23_Witness ==
    /\ pc = "done" /\ arg.node = 1 /\ arg.fragment = <<"~", "0", "1">>
    /\ ret.kind = "ok" /\ heap[ret.node].key = <<"~", "1">>

(***************************************************************************)
(* Properties of a failed fetch                                            *)
(***************************************************************************)
\* The call of resolving just made fetched, and the fetch failed.
FetchFailed(r) == r.op = "resolving" /\ r.fetched /\ r.doc = 0

\* C24: a resolving call whose fetch fails leaves the store, base_uri, the
\* root schema, the resolution scope and the entered contexts as they were,
\* with no store entry for the URI; resolving the same URI next fetches again.
C24_FailedFetchChangesNothing ==
    [][/\ FetchFailed(ret') =>
            /\ store' = store
            /\ ret'.normalized_uri \notin DOMAIN store'
            /\ base_uri' = base_uri
            /\ schema' = schema
            /\ resolution_scope' = resolution_scope
            /\ ctx' = ctx
       /\ (FetchFailed(ret) /\ ret'.op = "resolving" /\ ret'.uri = ret.uri) =>
            ret'.fetched]_vars

\* A fetch failed inside a resolving context that had moved base_uri, for a
\* URI other than the one that context is in.
C24_Witness ==
    /\ FetchFailed(ret)
    /\ Len(ctx) = 1 /\ ctx[1].kind = "resolving"
    /\ ctx[1].old_base_uri # base_uri
    /\ ret.uri # base_uri
    /\ ret.kind # "ok"

====
